---- MODULE Spec2Model ----
(***************************************************************************)
(* Model of the BetBog signal pipeline:                                    *)
(*   - result_tracker.py : resolution of pending signals                   *)
(*   - main.py           : signal creation and the background loops        *)
(*   - tick_analyzer.py  : per-match tick history, deltas, moving sums     *)
(*   - football_strategies.py / advanced_strategies.py : condition-count   *)
(*     gated strategy evaluators                                           *)
(*                                                                         *)
(* Units.  Wall-clock time of the result tracker is counted in hours.      *)
(* Odds are integers in hundredths, stakes in thousandths, profit_loss in  *)
(* units of 1e-5 (hundredths x thousandths), so that (odds - 1) * stake is *)
(* an exact integer product.  Strategy metrics are integers in hundredths. *)
(***************************************************************************)
EXTENDS Integers, Sequences, FiniteSets, TLC

VARIABLES
    now,        \* datetime.now() seen by the result tracker, in hours
    signals,    \* the signals table: sequence of Signal rows (index = id)
    match,      \* the Match row joined to the signals
    live,       \* the state of the match as the data provider reports it
    chk,        \* per signal: what the last resolution run did with it
    cycle_due,  \* no check cycle has run yet in the current hour step
    checking,   \* the rows a suspended check_pending_results run has loaded
    tnow,       \* datetime.now() seen by the tick analyzer, in seconds
    match_ticks,            \* TickAnalyzer.match_ticks
    match_deltas,           \* TickAnalyzer.match_deltas
    match_moving_averages,  \* TickAnalyzer.match_moving_averages
    tick_ret,   \* per match: outcome of the last add_tick call
    sin,        \* inputs of the strategy evaluation under analysis
    sout,       \* what the strategy evaluator returned
    ain,        \* one analyze_all_strategies call: the class and its evaluators' outcomes
    aout,       \* what that analyze_all_strategies call did
    cin,        \* arguments of a MetricsCalculator call
    cout,       \* per MetricsCalculator method: what the call did
    strategy_stats,  \* SimpleOptimizer.strategy_stats
    db,         \* per strategy: how far its signal history has grown
    opt,        \* the optimize_strategies task: where it is suspended
    oret,       \* the last optimize_strategy_thresholds call and its result
    pout,       \* the last predict_signal_success call and its result
    pnow,       \* datetime.now() seen by the monitoring loop, in seconds
    match_signal_timeout,  \* BetBogSystem.match_signal_timeout of the match
    session,    \* signal records added to the open database session
    stored,     \* the committed rows of the signals table
    task,       \* where the poll cycle's processing is suspended
    plog,       \* how the last process_match / process_signal call ended
    abandoned   \* cooldown stamps set by calls that were abandoned

rvars == <<now, signals, match, live, chk, cycle_due, checking>>
tvars == <<tnow, match_ticks, match_deltas, match_moving_averages, tick_ret>>
svars == <<sin, sout>>
avars == <<ain, aout>>
mvars == <<cin, cout>>
ovars == <<strategy_stats, db, opt, oret, pout>>
pvars == <<pnow, match_signal_timeout, session, stored, task, plog, abandoned>>
evars == <<avars, mvars, ovars, pvars>>
vars  == <<now, signals, match, live, chk, cycle_due, checking,
           tnow, match_ticks, match_deltas, match_moving_averages, tick_ret,
           sin, sout, evars>>

(***************************************************************************)
(* Bounds of the model                                                     *)
(***************************************************************************)
MaxSignals == 1
MaxClock == 9
MaxGoals == 1
ClockStep == 3
MaxTickClock == 240
TickStep == 30
MaxFaulty == 2
MaxRounds == 2
MaxPollClock == 420

(***************************************************************************)
(* Program constants of the result tracker                                 *)
(***************************************************************************)
RecentHours == 6
hours_old == 6
GoalDwell == 15
PerformanceDwell == 20
FullTime == 90
DefaultOdds == 200
DefaultTriggerMinute == 45
MinMinute == 10
MaxMinute == 85

NoTime == -1
tick_interval == 60
MIN_SAMPLES_FOR_LEARNING == 50
SignalCooldown == 300
DefaultMinConfidence == 7000000
tick_window_size == 3
max_ticks_history == 50

\* Python's None where a number is expected (no number of the model is negative
\* on input).
None == NoTime

Max(a, b) == IF a >= b THEN a ELSE b
Min(a, b) == IF a <= b THEN a ELSE b
Abs(a) == IF a >= 0 THEN a ELSE -a

(***************************************************************************)
(* Signal types.  RegisteredTypes are the ones the strategies registered   *)
(* in BettingStrategies.strategies emit; ResolverTypes are the ones        *)
(* _can_resolve_signal has a branch for.                                   *)
(***************************************************************************)
OverTypes == {"over_1.5", "over_2.5", "over_3.5"}
GoalTypes == {"first_goal", "next_goal"}
RegisteredTypes == {"over_1.5", "over_2.5", "btts", "under_2_5",
                    "first_goal", "next_goal", "next_goal_away"}
ResolverTypes == OverTypes \cup GoalTypes \cup
                 {"btts", "late_goal", "team_to_score", "team_performance"}
SignalTypes == RegisteredTypes \cup ResolverTypes
Teams == {"home", "away"}
Terminal == {"win", "loss", "push"}
FinishedStatus == {"finished", "ft"}

(***************************************************************************)
(* result_tracker.py : evaluators                                          *)
(* A signal row carries `team`, the value its evaluator reads from         *)
(* trigger_metrics (leading_team, advantage_team, efficient_team or        *)
(* trending_team).                                                         *)
(***************************************************************************)
target(signal_type) ==
    CASE signal_type = "over_1.5" -> 15
      [] signal_type = "over_2.5" -> 25
      [] signal_type = "over_3.5" -> 35

total_goals(m) == m.home_score + m.away_score

evaluate_over_goals(signal, m) ==
    IF total_goals(m) * 10 > target(signal.signal_type) THEN "win" ELSE "loss"

evaluate_btts(signal, m) ==
    IF m.home_score > 0 /\ m.away_score > 0 THEN "win" ELSE "loss"

evaluate_goal_signals(signal, m) ==
    IF signal.team = "home" /\ m.home_score > m.away_score THEN "win"
    ELSE IF signal.team = "away" /\ m.away_score > m.home_score THEN "win"
    ELSE "loss"

evaluate_late_goal(signal, m) ==
    IF total_goals(m) > 0 /\ signal.team = "home" /\ m.home_score > 0 THEN "win"
    ELSE IF total_goals(m) > 0 /\ signal.team = "away" /\ m.away_score > 0 THEN "win"
    ELSE "loss"

\* Variant that calls a loss as soon as the team has not scored.
evaluate_team_to_score_early(signal, m) ==
    IF signal.team = "home" /\ m.home_score > 0 THEN "win"
    ELSE IF signal.team = "away" /\ m.away_score > 0 THEN "win"
    ELSE "loss"

evaluate_team_to_score(signal, m) ==
    IF signal.team = "home" /\ m.home_score > 0 THEN "win"
    ELSE IF signal.team = "away" /\ m.away_score > 0 THEN "win"
    ELSE IF m.status \in FinishedStatus THEN "loss"
    ELSE "pending"

evaluate_team_performance(signal, m) ==
    IF signal.team = "home"
    THEN IF m.home_score > m.away_score THEN "win"
         ELSE IF m.home_score = m.away_score THEN "push"
         ELSE "loss"
    ELSE IF m.away_score > m.home_score THEN "win"
         ELSE IF m.home_score = m.away_score THEN "push"
         ELSE "loss"

(***************************************************************************)
(* result_tracker.py : _can_resolve_signal                                 *)
(* Returns the pair (can_resolve, result); the explanation string is not   *)
(* modelled.                                                               *)
(***************************************************************************)
Resolvable(r) == [can |-> TRUE, result |-> r]
NotResolvable == [can |-> FALSE, result |-> "pending"]

can_resolve_signal(signal, m, current_minute) ==
    LET signal_type == signal.signal_type
        time_since_signal == current_minute - signal.trigger_minute
        ended == m.status \in FinishedStatus \/ current_minute >= FullTime
    IN  IF signal_type \in OverTypes THEN
            IF ended THEN Resolvable(evaluate_over_goals(signal, m))
            ELSE IF total_goals(m) * 10 > target(signal_type) THEN Resolvable("win")
            ELSE NotResolvable
        ELSE IF signal_type = "btts" THEN
            IF m.home_score > 0 /\ m.away_score > 0 THEN Resolvable("win")
            ELSE IF ended THEN Resolvable(evaluate_btts(signal, m))
            ELSE NotResolvable
        ELSE IF signal_type \in GoalTypes THEN
            IF time_since_signal >= GoalDwell
            THEN Resolvable(evaluate_goal_signals(signal, m))
            ELSE NotResolvable
        ELSE IF signal_type = "late_goal" THEN
            IF ended THEN Resolvable(evaluate_late_goal(signal, m))
            ELSE NotResolvable
        ELSE IF signal_type = "team_to_score" THEN
            IF evaluate_team_to_score(signal, m) # "pending"
            THEN Resolvable(evaluate_team_to_score(signal, m))
            ELSE NotResolvable
        ELSE IF signal_type = "team_performance" THEN
            IF time_since_signal >= PerformanceDwell
            THEN Resolvable(evaluate_team_performance(signal, m))
            ELSE NotResolvable
        ELSE NotResolvable

(***************************************************************************)
(* result_tracker.py : _calculate_profit_loss                              *)
(* round2 is Python's round(profit, 2): x is in units of 1e-5, the result  *)
(* in hundredths, halves go to the even neighbour.                         *)
(***************************************************************************)
round2(x) ==
    LET q == x \div 1000
        r == x % 1000
    IN  IF r < 500 THEN q
        ELSE IF r > 500 THEN q + 1
        ELSE IF q % 2 = 0 THEN q ELSE q + 1

\* Variant that books the gross return of a win instead of the profit.
calculate_profit_loss_gross(signal, result) ==
    LET stake == signal.stake
        odds == IF signal.odds = 0 THEN DefaultOdds ELSE signal.odds
        profit == IF result = "win" THEN odds * stake
                  ELSE IF result = "loss" THEN -(stake * 100)
                  ELSE 0
    IN  round2(profit) * 1000

calculate_profit_loss(signal, result) ==
    LET stake == signal.stake
        odds == IF signal.odds = 0 THEN DefaultOdds ELSE signal.odds
        profit == IF result = "win" THEN (odds - 100) * stake
                  ELSE IF result = "loss" THEN -(stake * 100)
                  ELSE 0
    IN  round2(profit) * 1000

(***************************************************************************)
(* result_tracker.py : _resolve_signal_result                              *)
(* found: whether any of the three lookups returned data for the match;    *)
(* resp: the parsed match data.  Returns the signal and match rows as the  *)
(* session holds them afterwards, the boolean the method returns and what  *)
(* _can_resolve_signal said.                                               *)
(***************************************************************************)
\* Variant that writes _can_resolve_signal's verdict even when it is negative.
resolve_signal_result_eager(signal, m, found, resp, clock) ==
    IF ~found
    THEN [signal |-> signal, match |-> m, ret |-> FALSE, step |-> "nodata"]
    ELSE LET updated == [minute |-> resp.minute, status |-> resp.status,
                         home_score |-> resp.home_score,
                         away_score |-> resp.away_score]
             cr == can_resolve_signal(signal, updated, resp.minute)
         IN  [signal |-> [signal EXCEPT
                            !.result = cr.result,
                            !.profit_loss = calculate_profit_loss(signal, cr.result),
                            !.resolved_at = clock],
              match |-> updated, ret |-> cr.can,
              step |-> IF cr.can THEN "resolved" ELSE "notyet"]

\* Variant that also books the settled stake and odds on the row.
settle_booked(signal, result, profit_loss, clock) ==
    [signal EXCEPT !.result = result, !.profit_loss = profit_loss,
                   !.resolved_at = clock,
                   !.stake = Abs(profit_loss) \div 100, !.odds = DefaultOdds]

\* The Signal row after the three assignments that settle it.
settle(signal, result, profit_loss, clock) ==
    [signal EXCEPT !.result = result, !.profit_loss = profit_loss,
                   !.resolved_at = clock]

resolve_signal_result(signal, m, found, resp, clock) ==
    IF ~found
    THEN [signal |-> signal, match |-> m, ret |-> FALSE, step |-> "nodata"]
    ELSE LET updated == [minute |-> resp.minute, status |-> resp.status,
                         home_score |-> resp.home_score,
                         away_score |-> resp.away_score]
             cr == can_resolve_signal(signal, updated, resp.minute)
         IN  IF cr.can
             THEN [signal |-> settle(signal, cr.result,
                                     calculate_profit_loss(signal, cr.result),
                                     clock),
                   match |-> updated, ret |-> TRUE, step |-> "resolved"]
             ELSE [signal |-> signal, match |-> updated, ret |-> FALSE,
                   step |-> "notyet"]

(***************************************************************************)
(* result_tracker.py : check_pending_results                               *)
(* The loop over the selected (signal, match) pairs; every pair shares the *)
(* one Match row of the session.  found[i] says whether the lookups for    *)
(* signal i returned data.  chk logs, per signal, the step the run took    *)
(* ("skipped" when the query did not select it) and the value              *)
(* _resolve_signal_result returned.                                        *)
(***************************************************************************)
Log(step, ret) == [step |-> step, ret |-> ret]

RECURSIVE check_loop(_, _, _, _, _, _, _)
check_loop(i, sigs, m, log, selected, found, resp) ==
    IF i > Len(sigs) THEN [signals |-> sigs, match |-> m, chk |-> log]
    ELSE IF i \notin selected
         THEN check_loop(i + 1, sigs, m, Append(log, Log("skipped", FALSE)),
                         selected, found, resp)
         ELSE LET r == resolve_signal_result(sigs[i], m, found[i], resp, now)
              IN  check_loop(i + 1, [sigs EXCEPT ![i] = r.signal], r.match,
                             Append(log, Log(r.step, r.ret)), selected, found, resp)

\* Variant of the query without the result == 'pending' filter.
pending_recent_any(sigs, clock) ==
    {i \in 1..Len(sigs) : sigs[i].created_at >= clock - RecentHours}

pending_recent(sigs, clock) ==
    {i \in 1..Len(sigs) : sigs[i].result = "pending"
                          /\ sigs[i].created_at >= clock - RecentHours}

check_pending_results ==
    \E found \in [1..Len(signals) -> BOOLEAN] :
        LET selected == pending_recent(signals, now)
            out == check_loop(1, signals, match, <<>>, selected, found, live)
        IN  /\ signals' = out.signals
            /\ match' = out.match
            /\ chk' = out.chk
            /\ cycle_due' = FALSE
            /\ UNCHANGED <<now, live, checking>>
            /\ UNCHANGED tvars
            /\ UNCHANGED svars
            /\ UNCHANGED evars

(***************************************************************************)
(* result_tracker.py : force_resolve_old_signals                           *)
(***************************************************************************)
pending_old(sigs, clock) ==
    {i \in 1..Len(sigs) : sigs[i].result = "pending"
                          /\ sigs[i].created_at < clock - hours_old}

\* Variant that books the penalty on every old signal, pending or not.
force_resolve_again(sigs, clock) ==
    [i \in 1..Len(sigs) |->
        IF sigs[i].created_at < clock - hours_old
        THEN [sigs[i] EXCEPT !.result = "loss",
                             !.profit_loss = @ - (sigs[i].stake * 100),
                             !.resolved_at = clock]
        ELSE sigs[i]]

force_resolve(sigs, clock) ==
    [i \in 1..Len(sigs) |->
        IF i \in pending_old(sigs, clock)
        THEN [sigs[i] EXCEPT !.result = "loss",
                             !.profit_loss = -(sigs[i].stake * 100),
                             !.resolved_at = clock]
        ELSE sigs[i]]

force_resolve_old_signals ==
    /\ signals' = force_resolve(signals, now)
    /\ chk' = [i \in 1..Len(signals) |->
                 IF i \in pending_old(signals, now)
                 THEN Log("forced", FALSE) ELSE Log("kept", FALSE)]
    /\ UNCHANGED <<now, match, live, cycle_due, checking>>
    /\ UNCHANGED tvars
    /\ UNCHANGED svars
    /\ UNCHANGED evars

(***************************************************************************)
(* result_tracker.py : check_pending_results as the coroutine it is.  Its  *)
(* session loads the selected rows at the query; the run is then suspended *)
(* in the lookups of _resolve_signal_result, and session.commit() writes   *)
(* the rows the loop changed.  force_resolve_old_signals uses a session of *)
(* its own.                                                                *)
(***************************************************************************)
\* The signals table after the session of a check run commits.
commit_rows(table, loaded, changed) ==
    [i \in 1..Len(table) |->
        IF i <= Len(loaded) /\ changed[i] # loaded[i] THEN changed[i]
        ELSE table[i]]

\* ... up to the first await of _resolve_signal_result
check_pending_results_query ==
    /\ checking = <<>>
    /\ pending_recent(signals, now) # {}
    /\ checking' = [selected |-> pending_recent(signals, now),
                    rows |-> signals, match |-> match]
    /\ UNCHANGED <<now, signals, match, live, chk, cycle_due>>
    /\ UNCHANGED tvars
    /\ UNCHANGED svars
    /\ UNCHANGED evars

\* ... the lookups return, the loop settles what it can, the session commits
check_pending_results_commit ==
    /\ checking # <<>>
    /\ \E found \in [1..Len(checking.rows) -> BOOLEAN] :
          LET out == check_loop(1, checking.rows, checking.match, <<>>,
                                checking.selected, found, live)
          IN  /\ signals' = commit_rows(signals, checking.rows, out.signals)
              /\ match' = out.match
              /\ chk' = out.chk \o SubSeq(chk, Len(out.chk) + 1, Len(chk))
    /\ checking' = <<>>
    /\ UNCHANGED <<now, live, cycle_due>>
    /\ UNCHANGED tvars
    /\ UNCHANGED svars
    /\ UNCHANGED evars

(***************************************************************************)
(* main.py : process_signal, the Signal(...) record it persists.           *)
(* StrategyOutputs are SignalResult values of the registered strategies    *)
(* (strategies.py): recommended_odds = round(1.1 / confidence, 2) (1.15    *)
(* above 0.8), stake_multiplier per strategy; minute_key says whether      *)
(* trigger_metrics holds "minute"; confidence is in thousandths and        *)
(* trigger_metrics is kept by its "minute" entry.                          *)
(***************************************************************************)
StrategyOutput(type, team, odds, stake, minute_key, confidence) ==
    [signal_type |-> type, team |-> team, odds |-> odds, stake |-> stake,
     minute_key |-> minute_key, confidence |-> confidence]

StrategyOutputs ==
    { StrategyOutput("over_1.5", "home", 135, 1350, TRUE, 850),
      StrategyOutput("btts", "home", 153, 1220, TRUE, 720),
      StrategyOutput("under_2_5", "home", 157, 1000, TRUE, 700),
      StrategyOutput("next_goal", "home", 157, 1000, FALSE, 700),
      StrategyOutput("next_goal_away", "home", 157, 900, TRUE, 700) }

signal_record(out, minute, clock) ==
    [signal_type |-> out.signal_type,
     team |-> out.team,
     trigger_minute |-> IF out.minute_key THEN minute ELSE DefaultTriggerMinute,
     odds |-> out.odds,
     stake |-> out.stake,
     confidence |-> out.confidence,
     trigger_metrics |-> IF out.minute_key THEN "minute" :> minute ELSE <<>>,
     result |-> "pending",
     profit_loss |-> 0,
     created_at |-> clock,
     resolved_at |-> NoTime]

process_signal ==
    /\ Len(signals) < MaxSignals
    /\ live.minute >= MinMinute
    /\ live.minute <= MaxMinute
    /\ \E out \in StrategyOutputs :
          signals' = Append(signals, signal_record(out, live.minute, now))
    /\ chk' = Append(chk, Log("new", FALSE))
    /\ UNCHANGED <<now, match, live, cycle_due, checking>>
    /\ UNCHANGED tvars
    /\ UNCHANGED svars
    /\ UNCHANGED evars

(***************************************************************************)
(* Environment of the result tracker: the wall clock and the match as the  *)
(* data provider reports it.  api_client.parse_match_data gives status     *)
(* "live" or "finished" and takes the minute from the event's timer, 0     *)
(* when the event carries none (ended events).                             *)
(***************************************************************************)
LiveMinutes == {50, 60, FullTime}

AdvanceClock ==
    /\ now + ClockStep <= MaxClock
    /\ now' = now + ClockStep
    /\ cycle_due' = TRUE
    /\ UNCHANGED <<signals, match, live, chk, checking>>
    /\ UNCHANGED tvars
    /\ UNCHANGED svars
    /\ UNCHANGED evars

MatchMinute ==
    /\ live.status = "live"
    /\ \E mi \in LiveMinutes :
          /\ mi > live.minute
          /\ live' = [live EXCEPT !.minute = mi]
    /\ UNCHANGED <<now, signals, match, chk, cycle_due, checking>>
    /\ UNCHANGED tvars
    /\ UNCHANGED svars
    /\ UNCHANGED evars

MatchGoal ==
    /\ live.status = "live"
    /\ \/ /\ live.home_score < MaxGoals
          /\ live' = [live EXCEPT !.home_score = @ + 1]
       \/ /\ live.away_score < MaxGoals
          /\ live' = [live EXCEPT !.away_score = @ + 1]
    /\ UNCHANGED <<now, signals, match, chk, cycle_due, checking>>
    /\ UNCHANGED tvars
    /\ UNCHANGED svars
    /\ UNCHANGED evars

MatchEnds ==
    /\ live.status = "live"
    /\ \E mi \in {0, FullTime} :
          live' = [live EXCEPT !.status = "finished", !.minute = mi]
    /\ UNCHANGED <<now, signals, match, chk, cycle_due, checking>>
    /\ UNCHANGED tvars
    /\ UNCHANGED svars
    /\ UNCHANGED evars

(***************************************************************************)
(* tick_analyzer.py : TickData, TickAnalyzer                               *)
(* A dict keyed by match id is a function on the ids it holds; a deque is  *)
(* a sequence cut to its maxlen from the left.  Of TickDelta only          *)
(* delta_value is kept.  confidence is in hundredths.                      *)
(***************************************************************************)
MatchIds == {"m1"}

tracked_metrics ==
    {"total_attacks", "total_shots", "total_dangerous", "total_corners",
     "total_goals", "attacks_home", "attacks_away", "shots_home", "shots_away"}

Get(d, key, default) == IF key \in DOMAIN d THEN d[key] ELSE default

TickData(timestamp, match_data) ==
    [timestamp |-> timestamp,
     minute |-> Get(match_data, "minute", 0),
     home_score |-> Get(match_data, "home_score", 0),
     away_score |-> Get(match_data, "away_score", 0),
     attacks_home |-> Get(match_data, "attacks_home", 0),
     attacks_away |-> Get(match_data, "attacks_away", 0),
     shots_home |-> Get(match_data, "shots_home", 0),
     shots_away |-> Get(match_data, "shots_away", 0),
     dangerous_attacks_home |-> Get(match_data, "dangerous_attacks_home", 0),
     dangerous_attacks_away |-> Get(match_data, "dangerous_attacks_away", 0),
     possession_home |-> Get(match_data, "possession_home", 50),
     possession_away |-> Get(match_data, "possession_away", 50),
     corners_home |-> Get(match_data, "corners_home", 0),
     corners_away |-> Get(match_data, "corners_away", 0)]

\* Building metric_map adds the paired fields; a None among them raises
\* TypeError, whatever metric is asked for.
get_metric_raises(tick) ==
    \E f \in {"attacks_home", "attacks_away", "shots_home", "shots_away",
               "dangerous_attacks_home", "dangerous_attacks_away",
               "corners_home", "corners_away", "home_score", "away_score"} :
        tick[f] = None

get_metric_value(tick, metric_name) ==
    CASE metric_name = "total_attacks" -> tick.attacks_home + tick.attacks_away
      [] metric_name = "total_shots" -> tick.shots_home + tick.shots_away
      [] metric_name = "total_dangerous" ->
            tick.dangerous_attacks_home + tick.dangerous_attacks_away
      [] metric_name = "total_corners" -> tick.corners_home + tick.corners_away
      [] metric_name = "total_goals" -> tick.home_score + tick.away_score
      [] metric_name = "attacks_home" -> tick.attacks_home
      [] metric_name = "attacks_away" -> tick.attacks_away
      [] metric_name = "shots_home" -> tick.shots_home
      [] metric_name = "shots_away" -> tick.shots_away
      [] metric_name = "possession_home" -> tick.possession_home
      [] metric_name = "possession_away" -> tick.possession_away
      [] OTHER -> 0

\* Variant for a deque without maxlen.
deque_append_unbounded(q, x, n) == Append(q, x)

\* deque(maxlen = n).append(x)
deque_append(q, x, n) ==
    IF Len(q) < n THEN Append(q, x) ELSE Append(Tail(q), x)

\* list(q)[-n:]
last_n(q, n) ==
    IF Len(q) <= n THEN q ELSE SubSeq(q, Len(q) - n + 1, Len(q))

RECURSIVE sum(_)
sum(q) == IF q = <<>> THEN 0 ELSE Head(q) + sum(Tail(q))

NewMovingAverage ==
    [current_average |-> 0, deltas_history |-> <<>>, confidence |-> 0,
     trend |-> "stable"]

\* The three stores after initialize_match(match_id).
initialize_match(st, match_id) ==
    IF match_id \in DOMAIN st.ticks THEN st
    ELSE [ticks |-> (match_id :> <<>>) @@ st.ticks,
          deltas |-> (match_id :> [metric \in tracked_metrics |-> <<>>])
                        @@ st.deltas,
          mas |-> (match_id :> [metric \in tracked_metrics |-> NewMovingAverage])
                        @@ st.mas]

\* The per-metric delta deques after _calculate_deltas; raised is set when
\* the first get_metric_value call raises, before any delta is stored.
calculate_deltas(ticks, deltas) ==
    LET current_tick == ticks[Len(ticks)]
        previous_tick == ticks[Len(ticks) - 1]
    IN  IF get_metric_raises(current_tick) \/ get_metric_raises(previous_tick)
        THEN [raised |-> TRUE, deltas |-> deltas]
        ELSE [raised |-> FALSE,
              deltas |-> [metric \in tracked_metrics |->
                  deque_append(deltas[metric],
                               get_metric_value(current_tick, metric)
                                 - get_metric_value(previous_tick, metric),
                               tick_window_size * 2)]]

trend_of(delta_values, old) ==
    LET n == Len(delta_values)
    IN  IF n >= 2
        THEN IF delta_values[n] > delta_values[n - 1] THEN "rising"
             ELSE IF delta_values[n] < delta_values[n - 1] THEN "falling"
             ELSE "stable"
        ELSE IF n = 1
        THEN IF delta_values[1] > 0 THEN "rising"
             ELSE IF delta_values[1] < 0 THEN "falling"
             ELSE "stable"
        ELSE old

\* Variant that divides the sum by the number of deltas.
moving_average_mean(deltas, moving_avg) ==
    IF Len(deltas) >= 1
    THEN LET delta_values == last_n(deltas, tick_window_size)
         IN  [current_average |-> sum(delta_values) \div Len(delta_values),
              deltas_history |-> delta_values,
              confidence |-> (Min(Len(deltas), tick_window_size) * 100)
                                \div tick_window_size,
              trend |-> trend_of(delta_values, moving_avg.trend)]
    ELSE moving_avg

\* One metric's MovingAverage after _update_moving_averages.
moving_average(deltas, moving_avg) ==
    IF Len(deltas) >= 1
    THEN LET delta_values == last_n(deltas, tick_window_size)
         IN  [current_average |-> sum(delta_values),
              deltas_history |-> delta_values,
              confidence |-> (Min(Len(deltas), tick_window_size) * 100)
                                \div tick_window_size,
              trend |-> trend_of(delta_values, moving_avg.trend)]
    ELSE moving_avg

update_moving_averages(deltas, mas) ==
    [metric \in tracked_metrics |-> moving_average(deltas[metric], mas[metric])]

TickLog(step, ret, at) == [step |-> step, ret |-> ret, at |-> at]

\* Variant without the interval check.
too_early_never(ticks, clock) == FALSE

too_early(ticks, clock) ==
    /\ Len(ticks) > 0
    /\ clock - ticks[Len(ticks)].timestamp < tick_interval

\* add_tick: the stores and the returned value after the call.
add_tick_result(st, match_id, match_data, clock) ==
    LET s0 == initialize_match(st, match_id)
        tick == TickData(clock, match_data)
        ticks == s0.ticks[match_id]
    IN  IF too_early(ticks, clock)
        THEN [st |-> s0, log |-> TickLog("early", FALSE, clock)]
        ELSE LET appended == deque_append(ticks, tick, max_ticks_history)
                 s1 == [s0 EXCEPT !.ticks[match_id] = appended]
             IN  IF Len(appended) >= 2
                 THEN LET cd == calculate_deltas(appended, s0.deltas[match_id])
                      IN  IF cd.raised
                          THEN [st |-> s1, log |-> TickLog("failed", FALSE, clock)]
                          ELSE [st |-> [s1 EXCEPT
                                          !.deltas[match_id] = cd.deltas,
                                          !.mas[match_id] =
                                              update_moving_averages(cd.deltas, @)],
                                log |-> TickLog("added", TRUE, clock)]
                 ELSE [st |-> s1, log |-> TickLog("added", TRUE, clock)]

TickCounts == {0, 2, 5}

TickInputs ==
    {[minute |-> 30, attacks_home |-> a] : a \in TickCounts \cup {None}}

\* The analyzer's three dicts as one record.
TickStores ==
    [ticks |-> match_ticks, deltas |-> match_deltas,
     mas |-> match_moving_averages]

\* One call add_tick(match_id, match_data) at the current time.
add_tick_call(match_id, match_data) ==
    LET r == add_tick_result(TickStores, match_id, match_data, tnow)
    IN  /\ match_ticks' = r.st.ticks
        /\ match_deltas' = r.st.deltas
        /\ match_moving_averages' = r.st.mas
        /\ tick_ret' = (match_id :> r.log) @@ tick_ret
        /\ UNCHANGED tnow
        /\ UNCHANGED rvars
        /\ UNCHANGED svars
        /\ UNCHANGED evars

add_tick ==
    \E match_id \in MatchIds, match_data \in TickInputs :
        add_tick_call(match_id, match_data)

TickClock ==
    /\ tnow + TickStep <= MaxTickClock
    /\ tnow' = tnow + TickStep
    /\ UNCHANGED <<match_ticks, match_deltas, match_moving_averages, tick_ret>>
    /\ UNCHANGED rvars
    /\ UNCHANGED svars
    /\ UNCHANGED evars

(***************************************************************************)
(* A match followed for longer than the tick history holds: one add_tick   *)
(* call or more in every polling period, the attack count of the feed      *)
(* never going down.                                                       *)
(***************************************************************************)
MaxBufferClock == 3180

FeedCounts == {2, 5}

add_tick_counting ==
    \E match_id \in MatchIds, a \in FeedCounts :
        /\ match_id \in DOMAIN match_ticks /\ match_ticks[match_id] # <<>> =>
              a >= match_ticks[match_id][Len(match_ticks[match_id])].attacks_home
        /\ add_tick_call(match_id, [minute |-> 30, attacks_home |-> a])

\* The monitoring loop sleeps after it has processed its matches.
BufferClock ==
    /\ tnow + tick_interval <= MaxBufferClock
    /\ \A match_id \in MatchIds :
          match_id \in DOMAIN tick_ret /\ tick_ret[match_id].at = tnow
    /\ tnow' = tnow + tick_interval
    /\ UNCHANGED <<match_ticks, match_deltas, match_moving_averages, tick_ret>>
    /\ UNCHANGED rvars
    /\ UNCHANGED svars
    /\ UNCHANGED evars

(***************************************************************************)
(* TickAnalyzer.detect_momentum_shifts.  d > e * 1.5 is 2 * d > 3 * e and  *)
(* d < e * 0.5 is 2 * d < e on integers.                                   *)
(***************************************************************************)
key_metrics == {"total_attacks", "total_shots", "total_dangerous"}

\* Which branch detect_momentum_shifts takes for one key metric.
momentum_shift(moving_avg) ==
    LET recent_deltas == moving_avg.deltas_history
        n == Len(recent_deltas)
    IN  IF moving_avg.confidence < 70 \/ n < 3 THEN "none"
        ELSE IF /\ recent_deltas[n - 2] < 0
                /\ recent_deltas[n - 1] < 0
                /\ 2 * recent_deltas[n] > 3 * recent_deltas[n - 1]
        THEN "momentum_gain"
        ELSE IF /\ recent_deltas[n - 2] > 0
                /\ recent_deltas[n - 1] > 0
                /\ 2 * recent_deltas[n] < recent_deltas[n - 1]
        THEN "momentum_loss"
        ELSE "none"

\* The entries of the returned list, as a set.
momentum_shifts(mas, match_id) ==
    IF match_id \notin DOMAIN mas THEN {}
    ELSE {LET moving_avg == mas[match_id][metric]
              d == moving_avg.deltas_history
              type == momentum_shift(moving_avg)
          IN  [type |-> type, metric |-> metric,
               strength |-> IF type = "momentum_gain" THEN Abs(d[Len(d)])
                            ELSE Abs(d[Len(d)] - d[Len(d) - 1]),
               confidence |-> moving_avg.confidence] :
          metric \in {k \in key_metrics :
                         momentum_shift(mas[match_id][k]) # "none"}}

detect_momentum_shifts ==
    \E match_id \in MatchIds :
        /\ tick_ret' =
              (match_id :> TickLog("shifts",
                                   momentum_shifts(match_moving_averages, match_id),
                                   tnow)) @@ tick_ret
        /\ UNCHANGED <<tnow, match_ticks, match_deltas, match_moving_averages>>
        /\ UNCHANGED rvars
        /\ UNCHANGED svars
        /\ UNCHANGED evars

(***************************************************************************)
(* Several matches tracked at once, and the removal of a match's buffers.  *)
(***************************************************************************)
MaxMatchClock == 180

LiveMatchIds == {"m1", "m2"}

LiveTickInputs == {[minute |-> 30, attacks_home |-> a] : a \in {0, 2}}

\* dict without the key: del d[key] for a key it holds
Without(dict, key) == [k \in DOMAIN dict \ {key} |-> dict[k]]

\* Variant that empties the three dicts.
clear_match_data_result_all(st, match_id) ==
    [ticks |-> <<>>, deltas |-> <<>>, mas |-> <<>>]

\* The three stores after clear_match_data(match_id).
clear_match_data_result(st, match_id) ==
    [ticks |-> Without(st.ticks, match_id),
     deltas |-> Without(st.deltas, match_id),
     mas |-> Without(st.mas, match_id)]

add_tick_live ==
    \E match_id \in LiveMatchIds, match_data \in LiveTickInputs :
        add_tick_call(match_id, match_data)

clear_match_data ==
    \E match_id \in LiveMatchIds :
        LET st == clear_match_data_result(TickStores, match_id)
        IN  /\ match_ticks' = st.ticks
            /\ match_deltas' = st.deltas
            /\ match_moving_averages' = st.mas
            /\ tick_ret' = (match_id :> TickLog("cleared", None, tnow)) @@ tick_ret
            /\ UNCHANGED tnow
            /\ UNCHANGED rvars
            /\ UNCHANGED svars
            /\ UNCHANGED evars

\* One polling period passes.
MatchClock ==
    /\ tnow + tick_interval <= MaxMatchClock
    /\ tnow' = tnow + tick_interval
    /\ UNCHANGED <<match_ticks, match_deltas, match_moving_averages, tick_ret>>
    /\ UNCHANGED rvars
    /\ UNCHANGED svars
    /\ UNCHANGED evars

(***************************************************************************)
(* main.py : what process_match and the maintenance loop do to the tick    *)
(* buffers.  process_match is followed past calculate_metrics, as it runs  *)
(* when that call returns; no loop of start_monitoring calls               *)
(* cleanup_old_matches.                                                    *)
(***************************************************************************)
StaleHours == 24
MaintenancePeriod == 3600
MaxPurgeClock == 90000

PolledMinutes == {80, 85, 90, 95}

ProcessLog(step, minute, at) == [step |-> step, minute |-> minute, at |-> at]

\* The tick stores after process_match(match_data) and what it did.
process_match_result(st, match_id, minute, stats, clock) ==
    IF minute < MinMinute \/ minute > MaxMinute
    THEN [st |-> st, log |-> ProcessLog("skipped", minute, clock)]
    ELSE LET tick_data == [minute |-> minute,
                           attacks_home |-> stats.attacks_home]
             r == add_tick_result(st, match_id, tick_data, clock)
         IN  IF minute >= FullTime
             THEN [st |-> clear_match_data_result(r.st, match_id),
                   log |-> ProcessLog("cleared", minute, clock)]
             ELSE [st |-> r.st, log |-> ProcessLog(r.log.step, minute, clock)]

\* match_monitoring_loop hands a live match to process_match once in a
\* polling period; the minute the feed reports never goes back.
process_match ==
    /\ tnow <= MaxMatchClock
    /\ \E match_id \in MatchIds, minute \in PolledMinutes,
          stats \in LiveTickInputs :
          /\ match_id \in DOMAIN tick_ret =>
                /\ tick_ret[match_id].at < tnow
                /\ minute >= tick_ret[match_id].minute
          /\ LET r == process_match_result(TickStores, match_id, minute,
                                           stats, tnow)
             IN  /\ match_ticks' = r.st.ticks
                 /\ match_deltas' = r.st.deltas
                 /\ match_moving_averages' = r.st.mas
                 /\ tick_ret' = (match_id :> r.log) @@ tick_ret
    /\ UNCHANGED tnow
    /\ UNCHANGED rvars
    /\ UNCHANGED svars
    /\ UNCHANGED evars

\* system_maintenance_loop: an hour's sleep, then run_maintenance_tasks,
\* which deletes old SystemLog rows and refreshes the strategy statistics.
run_maintenance_tasks ==
    /\ tnow + MaintenancePeriod <= MaxPurgeClock
    /\ tnow' = tnow + MaintenancePeriod
    /\ UNCHANGED <<match_ticks, match_deltas, match_moving_averages, tick_ret>>
    /\ UNCHANGED rvars
    /\ UNCHANGED svars
    /\ UNCHANGED evars

(***************************************************************************)
(* football_strategies.py / advanced_strategies.py : strategy evaluators   *)
(* sin holds the MatchMetrics, match_data and minute one                   *)
(* analyze_all_strategies call hands to every evaluator; metrics are in    *)
(* hundredths, counts are plain integers.  An evaluator's result is the    *)
(* SignalResult's confidence, in units of 1e-4, or NoSignal for None.      *)
(***************************************************************************)
Count(conditions) == Cardinality({i \in DOMAIN conditions : conditions[i]})

Signal(confidence) == [signal |-> TRUE, confidence |-> confidence]
NoSignal == [signal |-> FALSE, confidence |-> 0]

\* dxg_balance >= b / 10, dxg_balance being
\* 1 - |dxg_home - dxg_away| / max(dxg_home + dxg_away, 1)
dxg_balance_at_least(m, b) ==
    Abs(m.dxg_home - m.dxg_away) * 10
        <= (10 - b) * Max(m.dxg_home + m.dxg_away, 100)

btts_yes_conditions(m) ==
    << Min(m.dxg_home, m.dxg_away) >= 90,
       Min(m.shots_home, m.shots_away) >= 4,
       Min(m.attacks_home, m.attacks_away) >= 6,
       Min(m.momentum_home, m.momentum_away) >= 50,
       dxg_balance_at_least(m, 4),
       m.attacks_away >= 6,
       Max(m.stability_home, m.stability_away) <= 90 >>

\* Variant whose gate also opens on both bonuses.
btts_yes_bonus_gate(m) ==
    LET conditions_met == Count(btts_yes_conditions(m))
        confidence == (conditions_met * 7000) \div 7
                      + (IF dxg_balance_at_least(m, 6) THEN 500 ELSE 0)
                      + (IF Min(m.dxg_home, m.dxg_away) >= 120 THEN 400 ELSE 0)
    IN  IF conditions_met >= 5
           \/ (dxg_balance_at_least(m, 6) /\ Min(m.dxg_home, m.dxg_away) >= 120)
        THEN Signal(Min(8000, confidence))
        ELSE NoSignal

btts_yes(m) ==
    LET conditions_met == Count(btts_yes_conditions(m))
        confidence == (conditions_met * 7000) \div 7
                      + (IF dxg_balance_at_least(m, 6) THEN 500 ELSE 0)
                      + (IF Min(m.dxg_home, m.dxg_away) >= 120 THEN 400 ELSE 0)
    IN  IF conditions_met >= 5
        THEN Signal(Min(8000, confidence))
        ELSE NoSignal

draw_conditions(m) ==
    << Abs(m.dxg_home - m.dxg_away) <= 25,
       m.stability_home + m.stability_away >= 2 * 80,
       Abs(m.momentum_home - m.momentum_away) <= 20,
       Abs(m.shots_home - m.shots_away) <= 3,
       Abs(m.attacks_home - m.attacks_away) <= 5,
       m.wave_amplitude <= 40,
       Max(m.tiredness_home, m.tiredness_away) >= 50 >>

draw(m) ==
    LET conditions_met == Count(draw_conditions(m))
        confidence == (conditions_met * 4000) \div 7
                      + (IF Abs(m.dxg_home - m.dxg_away) <= 15 THEN 500 ELSE 0)
                      + (IF Abs(m.momentum_home - m.momentum_away) <= 10
                         THEN 400 ELSE 0)
    IN  IF conditions_met >= 6
        THEN Signal(Min(5500, confidence))
        ELSE NoSignal

over_2_5_goals_conditions(m) ==
    << m.goal_expectancy >= 280,
       m.match_tempo >= 220,
       m.attacking_intensity >= 180,
       m.dominance_home >= 35 /\ m.dominance_away >= 35,
       m.defensive_stability_home <= 60 \/ m.defensive_stability_away <= 60,
       m.defensive_pressure >= 15,
       m.conversion_rate_home + m.conversion_rate_away >= 30,
       m.dxg_home + m.dxg_away >= 250,
       m.attacking_balance <= 40,
       m.minute <= 25 >>

over_2_5_goals(m) ==
    IF m.minute > 25 THEN NoSignal
    ELSE LET conditions_met == Count(over_2_5_goals_conditions(m))
             current_goals == m.goals_home + m.goals_away
             base_confidence ==
                 conditions_met * 820
                 + (IF m.goal_expectancy >= 320 THEN 600 ELSE 0)
                 + (IF current_goals >= 1 /\ m.minute <= 20 THEN 400 ELSE 0)
                 + (IF m.pressure_zones >= 70 THEN 300 ELSE 0)
             \* time_factor = max(0.7, 1 - minute / 90), in ninetieths
             time_factor == Max(63, 90 - m.minute)
         IN  IF conditions_met >= 7
             THEN Signal(Min(8800, (base_confidence * time_factor) \div 90))
             ELSE NoSignal

FootballProfiles ==
    [dxg : {<<130, 125>>, <<100, 95>>, <<130, 50>>},
     shots : {<<5, 5>>, <<6, 2>>},
     attacks : {<<8, 7>>, <<12, 4>>},
     momentum : {<<60, 55>>, <<70, 30>>},
     stability : {<<85, 85>>, <<95, 60>>},
     wave_amplitude : {30, 50},
     tiredness : {<<60, 40>>, <<30, 20>>}]

AdvancedProfiles ==
    [minute : {15, 30},
     goal_expectancy : {250, 300, 330},
     match_tempo : {200, 230},
     attacking_intensity : {150, 190},
     dominance : {<<40, 40>>, <<60, 20>>},
     defensive_stability : {<<50, 70>>, <<70, 70>>},
     defensive_pressure : {10, 16},
     conversion_rate : {<<20, 15>>, <<10, 10>>},
     attacking_balance : {30, 50},
     pressure_zones : {80},
     goals : {<<1, 0>>}]

MetricsOf(f, a) ==
    [minute |-> a.minute,
     dxg_home |-> f.dxg[1], dxg_away |-> f.dxg[2],
     shots_home |-> f.shots[1], shots_away |-> f.shots[2],
     attacks_home |-> f.attacks[1], attacks_away |-> f.attacks[2],
     momentum_home |-> f.momentum[1], momentum_away |-> f.momentum[2],
     stability_home |-> f.stability[1], stability_away |-> f.stability[2],
     wave_amplitude |-> f.wave_amplitude,
     tiredness_home |-> f.tiredness[1], tiredness_away |-> f.tiredness[2],
     goal_expectancy |-> a.goal_expectancy,
     match_tempo |-> a.match_tempo,
     attacking_intensity |-> a.attacking_intensity,
     dominance_home |-> a.dominance[1], dominance_away |-> a.dominance[2],
     defensive_stability_home |-> a.defensive_stability[1],
     defensive_stability_away |-> a.defensive_stability[2],
     defensive_pressure |-> a.defensive_pressure,
     conversion_rate_home |-> a.conversion_rate[1],
     conversion_rate_away |-> a.conversion_rate[2],
     attacking_balance |-> a.attacking_balance,
     pressure_zones |-> a.pressure_zones,
     goals_home |-> a.goals[1], goals_away |-> a.goals[2]]

FootballBase ==
    [dxg |-> <<130, 125>>, shots |-> <<5, 5>>, attacks |-> <<8, 7>>,
     momentum |-> <<60, 55>>, stability |-> <<85, 85>>,
     wave_amplitude |-> 30, tiredness |-> <<60, 40>>]

AdvancedBase ==
    [minute |-> 15, goal_expectancy |-> 300, match_tempo |-> 230,
     attacking_intensity |-> 190, dominance |-> <<40, 40>>,
     defensive_stability |-> <<50, 70>>, defensive_pressure |-> 16,
     conversion_rate |-> <<20, 15>>, attacking_balance |-> 30,
     pressure_zones |-> 80, goals |-> <<1, 0>>]

StrategyInputs ==
    {MetricsOf(f, AdvancedBase) : f \in FootballProfiles}
        \cup {MetricsOf(FootballBase, a) : a \in AdvancedProfiles}

analyze_btts_yes ==
    /\ sin # <<>>
    /\ "btts_yes" \notin DOMAIN sout
    /\ sout' = ("btts_yes" :> btts_yes(sin)) @@ sout
    /\ UNCHANGED sin
    /\ UNCHANGED rvars
    /\ UNCHANGED tvars
    /\ UNCHANGED evars

analyze_draw ==
    /\ sin # <<>>
    /\ "draw" \notin DOMAIN sout
    /\ sout' = ("draw" :> draw(sin)) @@ sout
    /\ UNCHANGED sin
    /\ UNCHANGED rvars
    /\ UNCHANGED tvars
    /\ UNCHANGED evars

analyze_over_2_5_goals ==
    /\ sin # <<>>
    /\ "over_2_5_goals" \notin DOMAIN sout
    /\ sout' = ("over_2_5_goals" :> over_2_5_goals(sin)) @@ sout
    /\ UNCHANGED sin
    /\ UNCHANGED rvars
    /\ UNCHANGED tvars
    /\ UNCHANGED evars

(***************************************************************************)
(* strategies.py: the dxG evaluator registered as over_2_5_goals and       *)
(* analyze_tiredness_advantage.  dxg, momentum, tiredness and gradient are *)
(* in hundredths, confidence in units of 1e-4.                             *)
(***************************************************************************)
\* Python's round(n / d, 3) for n / d in units of 1e-4, result in 1e-4.
round3(n, d) ==
    LET q == n \div (d * 10)
        r == n % (d * 10)
    IN  10 * (IF 2 * r < d * 10 THEN q
              ELSE IF 2 * r > d * 10 THEN q + 1
              ELSE IF q % 2 = 0 THEN q ELSE q + 1)

\* _get_time_confidence_factor, in hundredths
get_time_confidence_factor(minute) ==
    IF minute < 20 THEN 70
    ELSE IF minute < 45 THEN 100
    ELSE IF minute < 70 THEN 90
    ELSE 110

\* BettingStrategies.analyze_over_2_5_goals (strategy_name "dxg_spike")
dxg_spike(m) ==
    LET total_dxg == m.dxg_home + m.dxg_away
        dxg_imbalance == Abs(m.dxg_home - m.dxg_away)
        over25 == total_dxg > 150 /\ m.minute < 70
        over15 == total_dxg > 100 /\ m.minute < 60
        btts == total_dxg > 80 /\ dxg_imbalance > 30
        confidence == IF over25 THEN Min(9000, 5000 + (total_dxg - 150) * 30)
                      ELSE IF over15 THEN Min(8500, 5000 + (total_dxg - 100) * 40)
                      ELSE Min(8000, 5000 + dxg_imbalance * 50)
        time_factor == get_time_confidence_factor(m.minute)
        momentum == Abs(m.momentum_home) + Abs(m.momentum_away)
        \* confidence * time_factor * (1 + momentum_factor), over 100000
        final_confidence == confidence * time_factor * (1000 + momentum)
    IN  IF ~(total_dxg > 15 /\ m.minute > 20) THEN NoSignal
        ELSE IF ~(over25 \/ over15 \/ btts) THEN NoSignal
        ELSE IF final_confidence >= 7000 * 100000
        THEN Signal(round3(final_confidence, 100000))
        ELSE NoSignal

\* BettingStrategies.analyze_tiredness_advantage
tiredness_advantage(m) ==
    LET tiredness_diff == Abs(m.tiredness_home - m.tiredness_away)
        less_tired_team == IF m.tiredness_home < m.tiredness_away
                           THEN "home" ELSE "away"
        confidence_boost ==
            IF less_tired_team = "home" /\ m.gradient_home > 20 THEN 2000
            ELSE IF less_tired_team = "away" /\ m.gradient_away > 20 THEN 2000
            ELSE 0
        base_confidence == 5000 + tiredness_diff * 100
        clamped == Min(9000, base_confidence + confidence_boost)
        \* clamped + (minute - 60) / 30 * 0.1, over 3
        final_confidence == 3 * clamped + (m.minute - 60) * 100
    IN  IF m.minute < 60 THEN NoSignal
        ELSE IF ~(tiredness_diff > 30) THEN NoSignal
        ELSE IF final_confidence >= 3 * 6500
        THEN Signal(round3(final_confidence, 3))
        ELSE NoSignal

\* The ceiling each evaluator clamps its confidence to.
Ceiling(strategy) ==
    IF strategy = "btts_yes" THEN 8000 ELSE 9000

CeilingInputs ==
    {[gradient_home |-> g[1], gradient_away |-> g[2]]
        @@ MetricsOf([FootballBase EXCEPT !.dxg = x, !.momentum = mo,
                                           !.tiredness = t],
                     [AdvancedBase EXCEPT !.minute = minute]) :
        <<x, mo, t, g, minute>> \in
            {<<130, 125>>, <<250, 200>>, <<60, 50>>}
            \X {<<60, 55>>, <<0, 0>>, <<100, 100>>}
            \X {<<60, 40>>, <<20, 70>>, <<30, 20>>}
            \X {<<30, 0>>, <<0, 30>>, <<0, 0>>}
            \X {15, 30, 65, 75, 85}}

analyze_dxg_spike ==
    /\ sin # <<>>
    /\ "dxg_spike" \notin DOMAIN sout
    /\ sout' = ("dxg_spike" :> dxg_spike(sin)) @@ sout
    /\ UNCHANGED sin
    /\ UNCHANGED rvars
    /\ UNCHANGED tvars
    /\ UNCHANGED evars

analyze_tiredness_advantage ==
    /\ sin # <<>>
    /\ "tiredness_advantage" \notin DOMAIN sout
    /\ sout' = ("tiredness_advantage" :> tiredness_advantage(sin)) @@ sout
    /\ UNCHANGED sin
    /\ UNCHANGED rvars
    /\ UNCHANGED tvars
    /\ UNCHANGED evars

(***************************************************************************)
(* strategies.py / football_strategies.py / advanced_strategies.py :       *)
(* analyze_all_strategies.  A registry is the strategies dict in insertion *)
(* order.  What an evaluator does when called is an Outcome: it raises, it *)
(* returns None or a SignalResult, or (async def called without await) it  *)
(* returns a coroutine that holds the result it would have produced.       *)
(* ain names the evaluators that raise on the data at hand (faulty), the   *)
(* one that returns None (quiet) and the confidence of the others;         *)
(* btts_yes and draw of football_strategies.py and over_2_5_goals of       *)
(* advanced_strategies.py are computed from sin.                           *)
(***************************************************************************)
Classes == {"BettingStrategies", "FootballStrategies", "AdvancedFootballStrategies"}

Registry(cls) ==
    IF cls = "BettingStrategies"
    THEN <<"over_2_5_goals", "under_2_5_goals", "momentum_shift", "next_goal_away">>
    ELSE IF cls = "FootballStrategies"
    THEN <<"over_2_5_goals", "under_2_5_goals", "btts_yes", "btts_no",
           "home_win", "away_win", "draw", "next_goal_home", "next_goal_away">>
    ELSE <<"over_2_5_goals", "under_2_5_goals", "btts_yes", "btts_no",
           "home_win", "away_win", "draw", "next_goal_home", "next_goal_away",
           "over_1_5_goals", "under_1_5_goals", "over_3_5_goals",
           "under_3_5_goals">>

Range(q) == {q[i] : i \in DOMAIN q}

AsyncEvaluators(cls) ==
    IF cls = "BettingStrategies" THEN {}
    ELSE {"over_2_5_goals", "under_2_5_goals"}

\* result.confidence > gate
Gate(cls) ==
    IF cls = "BettingStrategies" THEN 5000
    ELSE IF cls = "FootballStrategies" THEN 5500
    ELSE 5800

Raises == [kind |-> "raise", result |-> NoSignal]
Returns(result) == [kind |-> "return", result |-> result]
Coroutine(result) == [kind |-> "coroutine", result |-> result]

\* What the evaluator would return if it ran to completion.
evaluator_result(cls, name, a, m) ==
    IF cls = "FootballStrategies" /\ name = "btts_yes" THEN btts_yes(m)
    ELSE IF cls = "FootballStrategies" /\ name = "draw" THEN draw(m)
    ELSE IF cls = "AdvancedFootballStrategies" /\ name = "over_2_5_goals"
    THEN over_2_5_goals(m)
    ELSE IF name \in a.quiet THEN NoSignal
    ELSE Signal(a.confidence)

\* strategy_func(current_metrics, match_data, minute)
evaluator_outcome(cls, name, a, m) ==
    IF name \in AsyncEvaluators(cls) THEN Coroutine(evaluator_result(cls, name, a, m))
    ELSE IF name \in a.faulty THEN Raises
    ELSE Returns(evaluator_result(cls, name, a, m))

\* advanced_strategies.py _calculate_derived_metrics: MetricsCalculator has
\* no method calculate_derived_metrics, the call raises AttributeError.
calculate_derived_metrics(m) == [raised |-> TRUE, metrics |-> m]

Analysis(raised, sigs, evaluated, caught) ==
    [raised |-> raised, signals |-> sigs, evaluated |-> evaluated,
     caught |-> caught]

\* One pass of the for loop: the try block and its except clause.  A
\* coroutine is truthy and has no attribute confidence: AttributeError.
strategy_step(cls, name, a, m, acc) ==
    LET o == evaluator_outcome(cls, name, a, m)
        evaluated == Append(acc.evaluated, name)
    IN  IF o.kind = "raise" \/ o.kind = "coroutine"
        THEN Analysis(FALSE, acc.signals, evaluated, acc.caught \cup {name})
        ELSE IF o.result.signal /\ o.result.confidence > Gate(cls)
        THEN Analysis(FALSE,
                      Append(acc.signals, [strategy |-> name,
                                           confidence |-> o.result.confidence]),
                      evaluated, acc.caught)
        ELSE Analysis(FALSE, acc.signals, evaluated, acc.caught)

RECURSIVE strategy_loop(_, _, _, _, _)
strategy_loop(cls, names, a, m, acc) ==
    IF names = <<>> THEN acc
    ELSE strategy_loop(cls, Tail(names), a, m,
                       strategy_step(cls, Head(names), a, m, acc))

analyze_all_strategies(cls, a, m) ==
    IF cls = "AdvancedFootballStrategies" /\ calculate_derived_metrics(m).raised
    THEN Analysis(TRUE, <<>>, <<>>, {})
    ELSE strategy_loop(cls, Registry(cls), a, m, Analysis(FALSE, <<>>, <<>>, {}))

SyncEvaluators(cls) == Range(Registry(cls)) \ AsyncEvaluators(cls)

AnalyzeInputs ==
    UNION {[cls : {cls},
            faulty : {f \in SUBSET SyncEvaluators(cls) : Cardinality(f) <= MaxFaulty},
            quiet : {{}} \cup {{n} : n \in Range(Registry(cls))},
            confidence : {Gate(cls), 7000}] : cls \in Classes}

\* Snapshots at minute 22 with attacks 20 / 15 and shots 9 / 6, goal
\* expectancy at or above 2.8, and 7 to 10 of the over-2.5 conditions.
AnalyzeSnapshots ==
    {MetricsOf([dxg |-> <<150, 130>>, shots |-> <<9, 6>>, attacks |-> <<20, 15>>,
                momentum |-> <<60, 55>>, stability |-> <<85, 85>>,
                wave_amplitude |-> 30, tiredness |-> <<60, 40>>], a) :
        a \in [minute : {22},
               goal_expectancy : {300, 330},
               match_tempo : {200, 230},
               attacking_intensity : {150, 190},
               dominance : {<<40, 40>>},
               defensive_stability : {<<50, 70>>},
               defensive_pressure : {10, 16},
               conversion_rate : {<<20, 15>>},
               attacking_balance : {30},
               pressure_zones : {80},
               goals : {<<1, 0>>}]}

analyze_all_strategies_betting ==
    /\ ain # <<>> /\ aout = <<>>
    /\ ain.cls = "BettingStrategies"
    /\ aout' = analyze_all_strategies(ain.cls, ain, sin)
    /\ UNCHANGED <<ain, sin, sout>>
    /\ UNCHANGED mvars
    /\ UNCHANGED ovars
    /\ UNCHANGED pvars
    /\ UNCHANGED rvars
    /\ UNCHANGED tvars

analyze_all_strategies_football ==
    /\ ain # <<>> /\ aout = <<>>
    /\ ain.cls = "FootballStrategies"
    /\ aout' = analyze_all_strategies(ain.cls, ain, sin)
    /\ UNCHANGED <<ain, sin, sout>>
    /\ UNCHANGED mvars
    /\ UNCHANGED ovars
    /\ UNCHANGED pvars
    /\ UNCHANGED rvars
    /\ UNCHANGED tvars

analyze_all_strategies_advanced ==
    /\ ain # <<>> /\ aout = <<>>
    /\ ain.cls = "AdvancedFootballStrategies"
    /\ aout' = analyze_all_strategies(ain.cls, ain, sin)
    /\ UNCHANGED <<ain, sin, sout>>
    /\ UNCHANGED mvars
    /\ UNCHANGED ovars
    /\ UNCHANGED pvars
    /\ UNCHANGED rvars
    /\ UNCHANGED tvars

(***************************************************************************)
(* metrics_calculator.py: MetricsCalculator.  Counts are integers,         *)
(* possession is in percent, every derived metric is in thousandths (the   *)
(* code rounds them to 3 decimals).                                        *)
(***************************************************************************)
\* Python's round(n / d, 0) of a non-negative quotient: halves go to even.
round_half_even(n, d) ==
    LET q == n \div d
        r == n % d
    IN  IF 2 * r < d THEN q
        ELSE IF 2 * r > d THEN q + 1
        ELSE IF q % 2 = 0 THEN q ELSE q + 1

\* _get_time_modifier, in tenths
get_time_modifier(minute) ==
    IF minute < 15 THEN 8
    ELSE IF minute < 30 THEN 10
    ELSE IF minute < 60 THEN 11
    ELSE IF minute < 75 THEN 10
    ELSE 12

\* _calculate_shot_quality as a fraction <<numerator, denominator>>:
\* min((shots/attacks * 0.6 + dangerous/attacks * 0.4) * shots * 0.15, 3.0)
calculate_shot_quality(shots, attacks, dangerous_attacks) ==
    IF attacks = 0 THEN <<0, 1000>>
    ELSE LET a == Max(attacks, 1)
         IN  <<Min((6 * shots + 4 * dangerous_attacks) * shots * 15, 3000 * a),
               1000 * a>>

\* One side of _calculate_dxg, in thousandths:
\* round(shot_quality * time_modifier * (1 + pressure * 0.1), 3)
side_dxg(shots, attacks, dangerous_attacks, minute) ==
    LET shot_quality == calculate_shot_quality(shots, attacks, dangerous_attacks)
        time_modifier == get_time_modifier(minute)
        m == Max(minute, 1)
        \* 1 + (shots / m * 90) * 0.1 = (m + 9 * shots) / m
        \* in thousandths: numerator * modifier / 10 * 1000 / denominator
    IN  round_half_even(shot_quality[1] * time_modifier * (m + 9 * shots),
                        (shot_quality[2] \div 100) * m)

\* _calculate_dxg on the counts of a snapshot, absent counts being 0
calculate_dxg_value(st, minute) ==
    <<side_dxg(Get(st, "shots_home", 0), Get(st, "attacks_home", 0),
               Get(st, "dangerous_attacks_home", 0), minute),
      side_dxg(Get(st, "shots_away", 0), Get(st, "attacks_away", 0),
               Get(st, "dangerous_attacks_away", 0), minute)>>

\* One side of _calculate_tiredness, in thousandths.
side_tiredness(possession, attacks, minute) ==
    round_half_even(possession * attacks * Min(minute, 90), Max(minute, 1) * 10)

calculate_shots_per_attack(shots, attacks) ==
    IF attacks = 0 THEN 0 ELSE round_half_even(1000 * shots, attacks)

\* The names bound in the body of calculate_metrics: its parameters and the
\* locals assigned before the MatchMetrics(...) call.  The module binds no
\* global `stats`.
calculate_metrics_names ==
    {"self", "current_stats", "historical_stats", "minute",
     "shots_home", "shots_away", "attacks_home", "attacks_away",
     "possession_home", "possession_away",
     "dangerous_attacks_home", "dangerous_attacks_away",
     "corners_home", "corners_away", "dxg_home", "dxg_away",
     "gradient_home", "gradient_away", "wave_amplitude",
     "tiredness_home", "tiredness_away", "momentum_home", "momentum_away",
     "stability_home", "stability_away",
     "shots_per_attack_home", "shots_per_attack_away"}

\* The history helpers on a history shorter than 3 snapshots return their
\* defaults: gradient 0, wave amplitude 0, momentum 0, stability 1.
calculate_metrics_result(current_stats, historical_stats, minute) ==
    LET shots_home == Get(current_stats, "shots_home", 0)
        shots_away == Get(current_stats, "shots_away", 0)
        attacks_home == Get(current_stats, "attacks_home", 0)
        attacks_away == Get(current_stats, "attacks_away", 0)
        possession_home == Get(current_stats, "possession_home", 50)
        possession_away == Get(current_stats, "possession_away", 50)
        dangerous_attacks_home == Get(current_stats, "dangerous_attacks_home", 0)
        dangerous_attacks_away == Get(current_stats, "dangerous_attacks_away", 0)
        corners_home == Get(current_stats, "corners_home", 0)
        corners_away == Get(current_stats, "corners_away", 0)
        dxg == calculate_dxg_value(current_stats, minute)
    IN  IF "stats" \notin calculate_metrics_names
        THEN [raised |-> TRUE, error |-> "NameError"]
        ELSE [raised |-> FALSE,
              dxg_home |-> dxg[1], dxg_away |-> dxg[2],
              gradient_home |-> 0, gradient_away |-> 0,
              wave_amplitude |-> 0,
              tiredness_home |-> side_tiredness(possession_home, attacks_home, minute),
              tiredness_away |-> side_tiredness(possession_away, attacks_away, minute),
              momentum_home |-> 0, momentum_away |-> 0,
              stability_home |-> 1000, stability_away |-> 1000,
              shots_per_attack_home |->
                  calculate_shots_per_attack(shots_home, attacks_home),
              shots_per_attack_away |->
                  calculate_shots_per_attack(shots_away, attacks_away),
              attacks_home |-> attacks_home, attacks_away |-> attacks_away,
              shots_home |-> shots_home, shots_away |-> shots_away,
              corners_home |-> corners_home, corners_away |-> corners_away,
              possession_home |-> possession_home,
              possession_away |-> possession_away,
              dangerous_home |-> dangerous_attacks_home,
              dangerous_away |-> dangerous_attacks_away,
              goals_home |-> Get(current_stats, "goals_home", 0),
              goals_away |-> Get(current_stats, "goals_away", 0)]

Restrict(f, keys) == [k \in DOMAIN f \cap keys |-> f[k]]

RawStats(shots, attacks, dangerous) ==
    [shots_home |-> shots, shots_away |-> 6,
     attacks_home |-> attacks, attacks_away |-> 15,
     dangerous_attacks_home |-> dangerous, dangerous_attacks_away |-> 4,
     possession_home |-> 55, possession_away |-> 45,
     corners_home |-> 3, corners_away |-> 2,
     goals_home |-> 1, goals_away |-> 0]

RawFields == DOMAIN RawStats(0, 0, 0)

MissingFields ==
    {{}, {"shots_home"}, {"possession_home", "possession_away"},
     {"attacks_home", "dangerous_attacks_home"}, RawFields}

Histories ==
    {<<>>, <<RawStats(1, 2, 1)>>, <<RawStats(1, 2, 1), RawStats(2, 5, 2)>>}

MetricsInputs ==
    {[current_stats |-> Restrict(RawStats(sh, at, da), RawFields \ missing),
      historical_stats |-> h, minute |-> minute] :
        <<sh, at, da, missing, h, minute>> \in
            {0, 6, 9, 20} \X {0, 15, 20} \X {0, 10, 20}
            \X MissingFields \X Histories \X {0, 10, 22, 45, 70, 80}}

calculate_metrics ==
    /\ cin # <<>>
    /\ "calculate_metrics" \notin DOMAIN cout
    /\ cout' = ("calculate_metrics" :>
                    calculate_metrics_result(cin.current_stats,
                                             cin.historical_stats, cin.minute))
                @@ cout
    /\ UNCHANGED cin
    /\ UNCHANGED rvars
    /\ UNCHANGED tvars
    /\ UNCHANGED svars
    /\ UNCHANGED avars
    /\ UNCHANGED ovars
    /\ UNCHANGED pvars

calculate_dxg ==
    /\ cin # <<>>
    /\ "calculate_dxg" \notin DOMAIN cout
    /\ cout' = ("calculate_dxg" :>
                    calculate_dxg_value(cin.current_stats, cin.minute))
                @@ cout
    /\ UNCHANGED cin
    /\ UNCHANGED rvars
    /\ UNCHANGED tvars
    /\ UNCHANGED svars
    /\ UNCHANGED avars
    /\ UNCHANGED ovars
    /\ UNCHANGED pvars

(***************************************************************************)
(* simple_optimizer.py: SimpleOptimizer, and main.py optimize_strategies.  *)
(* Confidences are in units of 1e-4; a mean is kept as the fraction        *)
(* <<sum, count>>; predict_signal_success returns a confidence in units of *)
(* 1e-7 (confidence times a multiplier in tenths times one in hundredths). *)
(* The isoformat timestamp last_optimized of an entry is left out.         *)
(***************************************************************************)
OptStrategies == <<"btts_yes", "draw">>

Rep(n, x) == [i \in 1..n |-> x]

Sig(result, confidence, trigger_minute) ==
    [result |-> result, confidence |-> confidence,
     trigger_minute |-> trigger_minute]

Stages == 0..3

\* The rows of the signals table for a strategy, as its history grows.
History(strategy_name, stage) ==
    IF strategy_name = "btts_yes"
    THEN IF stage = 0
         THEN Rep(20, Sig("win", 7000, 30)) \o Rep(10, Sig("loss", 6000, 60))
                \o Rep(10, Sig("pending", 7500, 40))
         ELSE IF stage = 1
         THEN Rep(30, Sig("win", 7000, 30)) \o Rep(19, Sig("loss", 6000, 60))
                \o Rep(11, Sig("pending", 7500, 40))
         ELSE IF stage = 2
         THEN Rep(30, Sig("win", 7200, 30)) \o Rep(20, Sig("loss", 6500, 60))
                \o Rep(10, Sig("push", 7500, 40))
         ELSE Rep(20, Sig("win", 7200, 30)) \o Rep(20, Sig("win", 8100, 70))
                \o Rep(25, Sig("loss", 6500, 60))
    ELSE IF stage = 0
         THEN Rep(40, Sig("pending", 7000, 30))
         ELSE IF stage = 1
         THEN Rep(50, Sig("loss", 7000, 50))
         ELSE IF stage = 2
         THEN Rep(50, Sig("win", 7800, 45)) \o Rep(50, Sig("pending", 7000, 50))
         ELSE Rep(45, Sig("win", 7800, 45)) \o Rep(15, Sig("loss", 8000, 50))

\* StrategyConfig.total_signals: every signal the strategy has generated
total_signals_of(strategy_name, stage) == Len(History(strategy_name, stage))

\* select(Signal).where(strategy_name == ..., result.in_(['win', 'loss']))
historical_signals(strategy_name, stage) ==
    SelectSeq(History(strategy_name, stage),
              LAMBDA sg : sg.result \in {"win", "loss"})

RECURSIVE sum_confidence(_)
sum_confidence(q) ==
    IF q = <<>> THEN 0 ELSE Head(q).confidence + sum_confidence(Tail(q))

\* statistics.mean of the confidences, as a fraction
mean_confidence(q) == <<sum_confidence(q), Len(q)>>

MinOf(S) == CHOOSE x \in S : \A y \in S : x <= y
MaxOf(S) == CHOOSE x \in S : \A y \in S : x >= y

\* _calculate_statistical_thresholds; min_confidence is in hundredths.  The
\* branches for dxg_spike, momentum_shift and tiredness_advantage are not
\* taken for the strategies of OptStrategies.
calculate_statistical_thresholds(win_signals, loss_signals, strategy_name) ==
    LET avg_win_conf == mean_confidence(win_signals)
        win_minutes == {win_signals[i].trigger_minute : i \in DOMAIN win_signals}
        confidence_part ==
            IF win_signals # <<>> /\ loss_signals # <<>>
            THEN [min_confidence |->
                    IF avg_win_conf[1] - 500 * avg_win_conf[2]
                          <= 6000 * avg_win_conf[2]
                    THEN 60
                    ELSE round_half_even(avg_win_conf[1] - 500 * avg_win_conf[2],
                                         100 * avg_win_conf[2])]
            ELSE <<>>
        minute_part ==
            IF win_signals # <<>>
            THEN [min_minute |-> Max(15, MinOf(win_minutes) + 5),
                  max_minute |-> Min(80, MaxOf(win_minutes) - 5)]
            ELSE <<>>
    IN  confidence_part @@ minute_part

\* The entry optimize_strategy_thresholds builds for strategy_stats.
stats_entry(historical, win_signals, loss_signals) ==
    [win_rate |-> <<Len(win_signals), Len(historical)>>,
     total_signals |-> Len(historical),
     avg_confidence_wins |-> mean_confidence(win_signals),
     avg_confidence_losses |->
        IF loss_signals # <<>> THEN mean_confidence(loss_signals) ELSE <<0, 1>>]

\* Variant that recalibrates whatever the number of samples.
enough_samples_always(historical, min_samples) == TRUE

\* not (len(historical_signals) < min_samples)
enough_samples(historical, min_samples) == ~(Len(historical) < min_samples)

\* Variant that stores the entry field by field and stops half way.
store_stats_fieldwise(table, strategy_name, entry) ==
    LET old == Get(table, strategy_name, <<>>)
        half == [win_rate |-> entry.win_rate,
                 total_signals |-> entry.total_signals]
    IN  (strategy_name :> (half @@ old)) @@ table

\* self.strategy_stats[strategy_name] = {...}: one dict assignment
store_stats(table, strategy_name, entry) ==
    (strategy_name :> entry) @@ table

\* optimize_strategy_thresholds: <<returned thresholds, strategy_stats after>>
optimize_strategy_thresholds(table, strategy_name, historical, min_samples) ==
    LET win_signals == SelectSeq(historical, LAMBDA sg : sg.result = "win")
        loss_signals == SelectSeq(historical, LAMBDA sg : sg.result = "loss")
    IN  IF ~enough_samples(historical, min_samples) THEN <<<<>>, table>>
        ELSE IF win_signals = <<>> THEN <<<<>>, table>>
        ELSE <<calculate_statistical_thresholds(win_signals, loss_signals,
                                                strategy_name),
               store_stats(table, strategy_name,
                           stats_entry(historical, win_signals, loss_signals))>>

\* Variant that takes the defaults of the .get calls for a missing entry.
no_history_never(stats) == FALSE

\* not stats: the entry is missing (None) or empty
no_history(stats) == stats = <<>>

\* Variant without the lower and the upper bound.
cap_confidence_none(adjusted_confidence) == adjusted_confidence

\* max(0.1, min(0.95, adjusted_confidence)), in units of 1e-7
cap_confidence(adjusted_confidence) ==
    Max(1000000, Min(9500000, adjusted_confidence))

\* predict_signal_success(strategy_name, trigger_metrics, confidence, minute,
\* threshold): trigger_metrics and threshold are not read.
predict(table, strategy_name, confidence, minute) ==
    LET stats == Get(table, strategy_name, <<>>)
        avg_win_confidence == Get(stats, "avg_confidence_wins", <<7000, 1>>)
        avg_loss_confidence == Get(stats, "avg_confidence_losses", <<5000, 1>>)
        confidence_multiplier ==
            IF confidence * avg_win_confidence[2] >= avg_win_confidence[1] THEN 11
            ELSE IF confidence * avg_loss_confidence[2] <= avg_loss_confidence[1]
            THEN 9
            ELSE 10
        time_multiplier ==
            IF 30 <= minute /\ minute <= 70 THEN 105
            ELSE IF minute < 20 \/ minute > 80 THEN 95
            ELSE 100
        adjusted_confidence == confidence * confidence_multiplier * time_multiplier
    IN  IF no_history(stats)
        THEN [confidence |-> confidence * 1000,
              explanation |-> "No historical data available"]
        ELSE [confidence |-> cap_confidence(adjusted_confidence),
              explanation |-> "Statistical prediction"]

PredictConfidences == {500, 7000, 7500, 9500}
PredictMinutes == {10, 25, 50}

\* process_signal's call of predict_signal_success: synchronous, it runs
\* wherever the optimization task is suspended.
predict_signal_success ==
    /\ opt # <<>>
    /\ \E i \in DOMAIN OptStrategies, confidence \in PredictConfidences,
          minute \in PredictMinutes :
          LET r == predict(strategy_stats, OptStrategies[i], confidence, minute)
          IN  pout' = [strategy_name |-> OptStrategies[i],
                       confidence |-> confidence,
                       minute |-> minute,
                       seen |-> Get(strategy_stats, OptStrategies[i], <<>>),
                       during |-> opt.pc,
                       result |-> r.confidence,
                       explanation |-> r.explanation]
    /\ UNCHANGED <<strategy_stats, db, opt, oret>>
    /\ UNCHANGED rvars
    /\ UNCHANGED tvars
    /\ UNCHANGED svars
    /\ UNCHANGED avars
    /\ UNCHANGED mvars
    /\ UNCHANGED pvars

\* The for loop of optimize_strategies up to its next await: strategies with
\* too few signals are skipped without suspending.
RECURSIVE next_suspension(_, _)
next_suspension(todo, rounds) ==
    IF todo = <<>> THEN [pc |-> "commit", todo |-> <<>>, rounds |-> rounds]
    ELSE IF total_signals_of(Head(todo), db[Head(todo)]) < MIN_SAMPLES_FOR_LEARNING
    THEN next_suspension(Tail(todo), rounds)
    ELSE [pc |-> "signals", todo |-> todo, rounds |-> rounds]

\* ml_optimization_loop wakes up and optimize_strategies suspends at
\* await session.execute(select(StrategyConfig)).
optimize_strategies_start ==
    /\ opt # <<>>
    /\ opt.pc = "idle"
    /\ opt.rounds < MaxRounds
    /\ opt' = [pc |-> "strategies", todo |-> <<>>, rounds |-> opt.rounds + 1]
    /\ UNCHANGED <<strategy_stats, db, oret, pout>>
    /\ UNCHANGED rvars
    /\ UNCHANGED tvars
    /\ UNCHANGED svars
    /\ UNCHANGED avars
    /\ UNCHANGED mvars
    /\ UNCHANGED pvars

\* The strategies arrive; the loop runs to the first
\* await session.execute(select(Signal)...) or to await session.commit().
optimize_strategies_listed ==
    /\ opt # <<>>
    /\ opt.pc = "strategies"
    /\ opt' = next_suspension(OptStrategies, opt.rounds)
    /\ UNCHANGED <<strategy_stats, db, oret, pout>>
    /\ UNCHANGED rvars
    /\ UNCHANGED tvars
    /\ UNCHANGED svars
    /\ UNCHANGED avars
    /\ UNCHANGED mvars
    /\ UNCHANGED pvars

\* The signals of the strategy at hand arrive; optimize_strategy_thresholds
\* contains no await and runs to its end, then the loop goes on to its next
\* suspension.
optimize_strategies_recalibrate ==
    /\ opt # <<>>
    /\ opt.pc = "signals"
    /\ LET strategy_name == Head(opt.todo)
           historical == historical_signals(strategy_name, db[strategy_name])
           r == optimize_strategy_thresholds(strategy_stats, strategy_name,
                                             historical, MIN_SAMPLES_FOR_LEARNING)
       IN  /\ strategy_stats' = r[2]
           /\ oret' = [strategy_name |-> strategy_name,
                       samples |-> Len(historical),
                       thresholds |-> r[1]]
    /\ opt' = next_suspension(Tail(opt.todo), opt.rounds)
    /\ UNCHANGED <<db, pout>>
    /\ UNCHANGED rvars
    /\ UNCHANGED tvars
    /\ UNCHANGED svars
    /\ UNCHANGED avars
    /\ UNCHANGED mvars
    /\ UNCHANGED pvars

\* await session.commit() returns, save_models, the task sleeps again.
optimize_strategies_commit ==
    /\ opt # <<>>
    /\ opt.pc = "commit"
    /\ opt' = [pc |-> "idle", todo |-> <<>>, rounds |-> opt.rounds]
    /\ UNCHANGED <<strategy_stats, db, oret, pout>>
    /\ UNCHANGED rvars
    /\ UNCHANGED tvars
    /\ UNCHANGED svars
    /\ UNCHANGED avars
    /\ UNCHANGED mvars
    /\ UNCHANGED pvars

\* More signals of a strategy are generated and resolved.
signals_resolved ==
    /\ opt # <<>>
    /\ \E strategy_name \in DOMAIN db :
          /\ db[strategy_name] + 1 \in Stages
          /\ db' = [db EXCEPT ![strategy_name] = @ + 1]
    /\ UNCHANGED <<strategy_stats, opt, oret, pout>>
    /\ UNCHANGED rvars
    /\ UNCHANGED tvars
    /\ UNCHANGED svars
    /\ UNCHANGED avars
    /\ UNCHANGED mvars
    /\ UNCHANGED pvars

(***************************************************************************)
(* main.py: process_match and process_signal for one match.  The task is   *)
(* suspended at an await (task.pc names it), about to process the match    *)
(* (idle) or sleeping until the next poll cycle.                           *)
(* Closing the session without a commit discards what was added to it.     *)
(* process_match as written ends in the except clause when                 *)
(* calculate_metrics raises; process_signal is also modelled as called     *)
(* with a signal and an open session, its caller committing afterwards as  *)
(* process_match does.                                                     *)
(***************************************************************************)
PollSignals ==
    {[strategy_name |-> "btts_yes", confidence |-> c] : c \in {6000, 8000}}
        \cup {[strategy_name |-> "draw", confidence |-> 8000]}

SuspensionPoints ==
    {"get_or_create_match", "get_historical_metrics",
     "flush", "notify", "update_strategy_stats", "commit"}

Task(pc, stamp) == [pc |-> pc, stamp |-> stamp]

PollLog(outcome) == [at |-> pnow, outcome |-> outcome]

\* Variant without the cooldown.
in_cooldown_off(timeout, current_time) == FALSE

\* time_diff < 300 for a match that has a last signal time
in_cooldown(timeout, current_time) ==
    timeout # NoTime /\ current_time - timeout < SignalCooldown

\* BetBogSystem.process_match up to await get_or_create_match
process_match_start ==
    /\ task # <<>>
    /\ task.pc = "idle"
    /\ task' = Task("get_or_create_match", NoTime)
    /\ session' = <<>>
    /\ UNCHANGED <<pnow, match_signal_timeout, stored, plog, abandoned>>
    /\ UNCHANGED rvars
    /\ UNCHANGED tvars
    /\ UNCHANGED svars
    /\ UNCHANGED avars
    /\ UNCHANGED mvars
    /\ UNCHANGED ovars

\* ... up to await get_historical_metrics
process_match_history ==
    /\ task # <<>>
    /\ task.pc = "get_or_create_match"
    /\ task' = Task("get_historical_metrics", NoTime)
    /\ UNCHANGED <<pnow, match_signal_timeout, session, stored, plog, abandoned>>
    /\ UNCHANGED rvars
    /\ UNCHANGED tvars
    /\ UNCHANGED svars
    /\ UNCHANGED avars
    /\ UNCHANGED mvars
    /\ UNCHANGED ovars

\* ... calculate_metrics raises, the except clause logs, the session closes.
process_match_calculate ==
    /\ task # <<>>
    /\ task.pc = "get_historical_metrics"
    /\ calculate_metrics_result(RawStats(6, 15, 4), <<>>, 22).raised
    /\ plog' = PollLog("error")
    /\ task' = Task("sleeping", NoTime)
    /\ session' = <<>>
    /\ UNCHANGED <<pnow, match_signal_timeout, stored, abandoned>>
    /\ UNCHANGED rvars
    /\ UNCHANGED tvars
    /\ UNCHANGED svars
    /\ UNCHANGED avars
    /\ UNCHANGED mvars
    /\ UNCHANGED ovars

\* BetBogSystem.process_signal up to its return or to await session.flush(),
\* called with the records the session holds and the stamp of the cycle.
process_signal_run(open, stamp) ==
    /\ \E signal \in PollSignals :
          LET ml == predict(strategy_stats, signal.strategy_name,
                            signal.confidence, DefaultTriggerMinute)
          IN  IF in_cooldown(match_signal_timeout, pnow)
              THEN /\ plog' = PollLog("suppressed")
                   /\ task' = Task("commit", stamp)
                   /\ session' = open
                   /\ UNCHANGED match_signal_timeout
              ELSE IF ml.confidence < DefaultMinConfidence
              THEN /\ match_signal_timeout' = pnow
                   /\ plog' = PollLog("rejected")
                   /\ task' = Task("commit", pnow)
                   /\ session' = open
              ELSE /\ match_signal_timeout' = pnow
                   /\ session' = Append(open,
                                        [strategy_name |-> signal.strategy_name,
                                         confidence |-> ml.confidence,
                                         result |-> "pending",
                                         created_at |-> pnow])
                   /\ task' = Task("flush", pnow)
                   /\ UNCHANGED plog
    /\ UNCHANGED <<pnow, stored, abandoned>>
    /\ UNCHANGED rvars
    /\ UNCHANGED tvars
    /\ UNCHANGED svars
    /\ UNCHANGED avars
    /\ UNCHANGED mvars
    /\ UNCHANGED ovars

\* process_match calls process_signal for the first signal of the cycle
process_signal_call ==
    /\ task # <<>>
    /\ task.pc = "idle"
    /\ process_signal_run(<<>>, NoTime)

\* ... and, when that call has returned, for the next signal of the list
process_signal_next ==
    /\ task # <<>>
    /\ task.pc = "commit"
    /\ process_signal_run(session, task.stamp)

\* ... up to await self._display_beautiful_signal_notification
process_signal_flushed ==
    /\ task # <<>>
    /\ task.pc = "flush"
    /\ task' = Task("notify", task.stamp)
    /\ UNCHANGED <<pnow, match_signal_timeout, session, stored, plog, abandoned>>
    /\ UNCHANGED rvars
    /\ UNCHANGED tvars
    /\ UNCHANGED svars
    /\ UNCHANGED avars
    /\ UNCHANGED mvars
    /\ UNCHANGED ovars

\* ... up to await self.update_strategy_stats
process_signal_notified ==
    /\ task # <<>>
    /\ task.pc = "notify"
    /\ task' = Task("update_strategy_stats", task.stamp)
    /\ UNCHANGED <<pnow, match_signal_timeout, session, stored, plog, abandoned>>
    /\ UNCHANGED rvars
    /\ UNCHANGED tvars
    /\ UNCHANGED svars
    /\ UNCHANGED avars
    /\ UNCHANGED mvars
    /\ UNCHANGED ovars

\* ... process_signal returns; its caller reaches await session.commit()
process_signal_returns ==
    /\ task # <<>>
    /\ task.pc = "update_strategy_stats"
    /\ plog' = PollLog("added")
    /\ task' = Task("commit", task.stamp)
    /\ UNCHANGED <<pnow, match_signal_timeout, session, stored, abandoned>>
    /\ UNCHANGED rvars
    /\ UNCHANGED tvars
    /\ UNCHANGED svars
    /\ UNCHANGED avars
    /\ UNCHANGED mvars
    /\ UNCHANGED ovars

\* await session.commit() of process_match returns and the session closes.
process_match_commit ==
    /\ task # <<>>
    /\ task.pc = "commit"
    /\ stored' = stored \o session
    /\ session' = <<>>
    /\ task' = Task("sleeping", NoTime)
    /\ UNCHANGED <<pnow, match_signal_timeout, plog, abandoned>>
    /\ UNCHANGED rvars
    /\ UNCHANGED tvars
    /\ UNCHANGED svars
    /\ UNCHANGED avars
    /\ UNCHANGED mvars
    /\ UNCHANGED ovars

\* The poll cycle is abandoned at the await where the task is suspended:
\* the session closes without a commit.
abandon_cycle ==
    /\ task # <<>>
    /\ task.pc \in SuspensionPoints
    /\ abandoned' = IF session # <<>> THEN abandoned \cup {task.stamp}
                    ELSE abandoned
    /\ session' = <<>>
    /\ task' = Task("sleeping", NoTime)
    /\ UNCHANGED <<pnow, match_signal_timeout, stored, plog>>
    /\ UNCHANGED rvars
    /\ UNCHANGED tvars
    /\ UNCHANGED svars
    /\ UNCHANGED avars
    /\ UNCHANGED mvars
    /\ UNCHANGED ovars

\* await asyncio.sleep(self.config.TICK_INTERVAL) of match_monitoring_loop
next_poll_cycle ==
    /\ task # <<>>
    /\ task.pc = "sleeping"
    /\ pnow + tick_interval <= MaxPollClock
    /\ pnow' = pnow + tick_interval
    /\ task' = Task("idle", NoTime)
    /\ UNCHANGED <<match_signal_timeout, session, stored, plog, abandoned>>
    /\ UNCHANGED rvars
    /\ UNCHANGED tvars
    /\ UNCHANGED svars
    /\ UNCHANGED avars
    /\ UNCHANGED mvars
    /\ UNCHANGED ovars

(***************************************************************************)
(* Initial states                                                          *)
(***************************************************************************)
KickOff == [minute |-> 50, status |-> "live", home_score |-> 0, away_score |-> 0]

TrackerIdle ==
    /\ now = 0
    /\ signals = <<>>
    /\ match = KickOff
    /\ live = KickOff
    /\ chk = <<>>
    /\ cycle_due = TRUE
    /\ checking = <<>>

TicksIdle ==
    /\ tnow = 0
    /\ match_ticks = <<>>
    /\ match_deltas = <<>>
    /\ match_moving_averages = <<>>
    /\ tick_ret = <<>>

StrategiesIdle ==
    /\ sin = <<>>
    /\ sout = <<>>

AnalysisIdle ==
    /\ ain = <<>>
    /\ aout = <<>>

MetricsIdle ==
    /\ cin = <<>>
    /\ cout = <<>>

OptimizerIdle ==
    /\ strategy_stats = <<>>
    /\ db = <<>>
    /\ opt = <<>>
    /\ oret = <<>>
    /\ pout = <<>>

PollIdle ==
    /\ pnow = 0
    /\ match_signal_timeout = NoTime
    /\ session = <<>>
    /\ stored = <<>>
    /\ task = <<>>
    /\ plog = <<>>
    /\ abandoned = {}

ExtensionsIdle ==
    /\ AnalysisIdle
    /\ MetricsIdle
    /\ OptimizerIdle
    /\ PollIdle

Init ==
    /\ TrackerIdle
    /\ TicksIdle
    /\ StrategiesIdle
    /\ ExtensionsIdle

(***************************************************************************)
(* Spec: the result tracker's operations run one after another, in any     *)
(* order, against a changing match and clock.                              *)
(***************************************************************************)
Next ==
    \/ process_signal
    \/ check_pending_results
    \/ force_resolve_old_signals
    \/ AdvanceClock
    \/ MatchMinute
    \/ MatchGoal
    \/ MatchEnds

Spec == Init /\ [][Next]_vars

(***************************************************************************)
(* The loops start_monitoring launches (main.py): match monitoring creates *)
(* signals, result_tracking_loop runs check_pending_results every          *)
(* RESULT_CHECK_INTERVAL seconds; ml_optimization_loop and                 *)
(* system_maintenance_loop do not touch signals.  No loop calls            *)
(* force_resolve_old_signals.  The check interval (config.py               *)
(* RESULT_CHECK_INTERVAL, 300 s) is far below one ClockStep, so the clock  *)
(* moves on only after a check cycle has run in the current step.          *)
(* Fairness: the tracking loop keeps running, time passes, the match ends. *)
(***************************************************************************)
result_tracking_loop == check_pending_results

Elapse == ~cycle_due /\ AdvanceClock

start_monitoring ==
    \/ process_signal
    \/ result_tracking_loop
    \/ Elapse
    \/ MatchMinute
    \/ MatchGoal
    \/ MatchEnds

FairSpec ==
    /\ Init
    /\ [][start_monitoring]_vars
    /\ WF_vars(result_tracking_loop)
    /\ WF_vars(Elapse)
    /\ WF_vars(MatchEnds)

(***************************************************************************)
(* SpecResolve: one check cycle over every kind of stored signal and every *)
(* match state the data provider can report.  Odds and stakes are those    *)
(* the strategies of strategies.py compute from a confidence: dxg_spike    *)
(* stakes confidence + 0.5, next_goal_away confidence + 0.2, the others    *)
(* the default 1.0 (under_2_5: 0.7 + 0.3).                                 *)
(***************************************************************************)
MaxResolveGoals == 2

ResolveMinutes == {0, 59, 60, 64, 65, 89, FullTime}

OddsStake(type) ==
    IF type \in {"over_1.5", "over_2.5", "btts"}
    THEN {<<135, 1350>>, <<140, 1323>>}
    ELSE IF type = "next_goal_away" THEN {<<157, 900>>}
    ELSE {<<157, 1000>>, <<200, 1000>>}

ResolveOutputs ==
    {StrategyOutput(type, team, os[1], os[2], FALSE, Max(os[2] - 500, 700)) :
        <<type, team, os>> \in
            {x \in SignalTypes \X Teams \X ({135, 140, 157, 200} \X {900, 1000, 1323, 1350}) :
                x[3] \in OddsStake(x[1])}}

ResolveMatches ==
    [minute : ResolveMinutes, status : {"live", "finished"},
     home_score : 0..MaxResolveGoals, away_score : 0..MaxResolveGoals]

InitResolve ==
    /\ now = 0
    /\ \E out \in ResolveOutputs :
          signals = <<signal_record(out, DefaultTriggerMinute, 0)>>
    /\ match = KickOff
    /\ live \in ResolveMatches
    /\ chk = <<Log("new", FALSE)>>
    /\ cycle_due = TRUE
    /\ checking = <<>>
    /\ TicksIdle
    /\ StrategiesIdle
    /\ ExtensionsIdle

NextResolve == check_pending_results

SpecResolve == InitResolve /\ [][NextResolve]_vars

(***************************************************************************)
(* SpecTick: the tick analyzer fed by add_tick calls at arbitrary times.   *)
(***************************************************************************)
NextTick ==
    \/ add_tick
    \/ TickClock

SpecTick == Init /\ [][NextTick]_vars

(***************************************************************************)
(* SpecMatches: one analyzer holding two matches, fed and cleared in any   *)
(* order.                                                                  *)
(***************************************************************************)
NextMatches ==
    \/ add_tick_live
    \/ clear_match_data
    \/ MatchClock

SpecMatches == Init /\ [][NextMatches]_vars

(***************************************************************************)
(* SpecPurge: a live match polled until after full time, and the system    *)
(* left running for a day.                                                 *)
(***************************************************************************)
NextPurge ==
    \/ process_match
    \/ MatchClock
    \/ run_maintenance_tasks

SpecPurge == Init /\ [][NextPurge]_vars

(***************************************************************************)
(* SpecMomentum: the tick analyzer of SpecTick, asked for momentum shifts  *)
(* at arbitrary times.                                                     *)
(***************************************************************************)
NextMomentum ==
    \/ add_tick
    \/ TickClock
    \/ detect_momentum_shifts

SpecMomentum == Init /\ [][NextMomentum]_vars

(***************************************************************************)
(* SpecRace: a check run suspended in its lookups while the clock runs and *)
(* force_resolve_old_signals is called.                                    *)
(***************************************************************************)
NextRace ==
    \/ process_signal
    \/ check_pending_results_query
    \/ check_pending_results_commit
    \/ force_resolve_old_signals
    \/ AdvanceClock
    \/ MatchMinute
    \/ MatchGoal
    \/ MatchEnds

SpecRace == Init /\ [][NextRace]_vars

(***************************************************************************)
(* SpecBuffers: one match fed for 53 polling periods.                      *)
(***************************************************************************)
NextBuffers ==
    \/ add_tick_counting
    \/ BufferClock

SpecBuffers == Init /\ [][NextBuffers]_vars

(***************************************************************************)
(* SpecStrategy: the evaluators applied to one set of metrics.             *)
(***************************************************************************)
InitStrategy ==
    /\ TrackerIdle
    /\ TicksIdle
    /\ sin \in StrategyInputs
    /\ sout = <<>>
    /\ ExtensionsIdle

NextStrategy ==
    \/ analyze_btts_yes
    \/ analyze_draw
    \/ analyze_over_2_5_goals

SpecStrategy == InitStrategy /\ [][NextStrategy]_vars

(***************************************************************************)
(* SpecMetrics: MetricsCalculator.calculate_metrics and _calculate_dxg,    *)
(* each applied once to a raw snapshot.                                    *)
(***************************************************************************)
InitMetrics ==
    /\ TrackerIdle
    /\ TicksIdle
    /\ StrategiesIdle
    /\ AnalysisIdle
    /\ cin \in MetricsInputs
    /\ cout = <<>>
    /\ OptimizerIdle
    /\ PollIdle

NextMetrics ==
    \/ calculate_metrics
    \/ calculate_dxg

SpecMetrics == InitMetrics /\ [][NextMetrics]_vars

(***************************************************************************)
(* SpecOptimizer: the optimization task and the signal evaluation share    *)
(* the event loop; the history of each strategy grows meanwhile.           *)
(***************************************************************************)
InitOptimizer ==
    /\ TrackerIdle
    /\ TicksIdle
    /\ StrategiesIdle
    /\ AnalysisIdle
    /\ MetricsIdle
    /\ strategy_stats = <<>>
    /\ db \in [Range(OptStrategies) -> {0}]
    /\ opt = [pc |-> "idle", todo |-> <<>>, rounds |-> 0]
    /\ oret = <<>>
    /\ pout = <<>>
    /\ PollIdle

NextOptimizer ==
    \/ predict_signal_success
    \/ optimize_strategies_start
    \/ optimize_strategies_listed
    \/ optimize_strategies_recalibrate
    \/ optimize_strategies_commit
    \/ signals_resolved

SpecOptimizer == InitOptimizer /\ [][NextOptimizer]_vars

(***************************************************************************)
(* SpecPoll: poll cycles over one match, each of which may be abandoned    *)
(* where it is suspended.                                                  *)
(***************************************************************************)
InitPoll ==
    /\ TrackerIdle
    /\ TicksIdle
    /\ StrategiesIdle
    /\ AnalysisIdle
    /\ MetricsIdle
    /\ OptimizerIdle
    /\ pnow = 0
    /\ match_signal_timeout = NoTime
    /\ session = <<>>
    /\ stored = <<>>
    /\ task = Task("idle", NoTime)
    /\ plog = <<>>
    /\ abandoned = {}

NextPoll ==
    \/ process_match_start
    \/ process_match_history
    \/ process_match_calculate
    \/ process_signal_call
    \/ process_signal_flushed
    \/ process_signal_notified
    \/ process_signal_returns
    \/ process_match_commit
    \/ abandon_cycle
    \/ next_poll_cycle

SpecPoll == InitPoll /\ [][NextPoll]_vars

(***************************************************************************)
(* SpecCooldown: the poll cycle with several signals in one tick.          *)
(***************************************************************************)
NextCooldown ==
    \/ NextPoll
    \/ process_signal_next

SpecCooldown == InitPoll /\ [][NextCooldown]_vars

(***************************************************************************)
(* SpecCeiling: the evaluators whose confidence ceiling is stated, each    *)
(* applied once to a snapshot.                                             *)
(***************************************************************************)
InitCeiling ==
    /\ TrackerIdle
    /\ TicksIdle
    /\ sin \in CeilingInputs
    /\ sout = <<>>
    /\ ExtensionsIdle

NextCeiling ==
    \/ analyze_dxg_spike
    \/ analyze_tiredness_advantage
    \/ analyze_btts_yes

SpecCeiling == InitCeiling /\ [][NextCeiling]_vars

(***************************************************************************)
(* SpecAnalyze: one analyze_all_strategies call of one of the three        *)
(* strategy classes.                                                       *)
(***************************************************************************)
InitAnalyze ==
    /\ TrackerIdle
    /\ TicksIdle
    /\ sin \in AnalyzeSnapshots
    /\ sout = <<>>
    /\ ain \in AnalyzeInputs
    /\ aout = <<>>
    /\ MetricsIdle
    /\ OptimizerIdle
    /\ PollIdle

NextAnalyze ==
    \/ analyze_all_strategies_betting
    \/ analyze_all_strategies_football
    \/ analyze_all_strategies_advanced

SpecAnalyze == InitAnalyze /\ [][NextAnalyze]_vars

(***************************************************************************)
(* Properties of the signal lifecycle                                      *)
(***************************************************************************)

\* C1: once a signal's result is terminal (win, loss, push), no step of
\* check_pending_results or force_resolve_old_signals changes its result,
\* profit_loss or resolved_at; a signal row is only ever written while its
\* result is 'pending'.
C1_TerminalWriteOnce ==
    [][\A i \in 1..Len(signals) :
          /\ signals[i].result \in Terminal =>
                /\ signals'[i].result = signals[i].result
                /\ signals'[i].profit_loss = signals[i].profit_loss
                /\ signals'[i].resolved_at = signals[i].resolved_at
          /\ signals'[i] # signals[i] => signals[i].result = "pending"]_vars

\* A terminal signal that a later run of either operation has passed over.
C1_Witness ==
    \E i \in 1..Len(signals) :
        /\ signals[i].result \in Terminal
        /\ chk[i].step \in {"skipped", "kept"}
        /\ now > signals[i].resolved_at

\* C3: the force run that sees a pending signal older than hours_old sets
\* result = loss and profit_loss = -stake; a force-resolved signal (a loss
\* resolved more than hours_old after creation) keeps that result and that
\* single penalty through every further step.
C3_ForcedOnce ==
    [][\A i \in 1..Len(signals) :
          /\ (i \in pending_old(signals, now) /\ chk'[i].step = "forced") =>
                /\ signals'[i].result = "loss"
                /\ signals'[i].profit_loss = -(signals[i].stake * 100)
                /\ signals'[i].resolved_at = now
          /\ (/\ signals[i].result = "loss"
              /\ signals[i].resolved_at > signals[i].created_at + hours_old) =>
                /\ signals'[i].result = "loss"
                /\ signals'[i].profit_loss = -(signals[i].stake * 100)]_vars

\* A force-resolved signal that a further run has left alone.
C3_Witness ==
    \E i \in 1..Len(signals) :
        /\ signals[i].result = "loss"
        /\ signals[i].resolved_at > signals[i].created_at + hours_old
        /\ signals[i].profit_loss = -(signals[i].stake * 100)
        /\ chk[i].step \in {"skipped", "kept"}

\* C4: a run of check_pending_results that finds no match data, or data
\* that _can_resolve_signal judges insufficient, returns False for the
\* signal and leaves it as it was: still pending, profit_loss and
\* resolved_at untouched, still selected by the next cycle's query.  A
\* signal whose match data does not allow a resolution reaches a terminal
\* result only as a stale signal forced to a loss.
C4_UnresolvedUntouched ==
    [][\A i \in 1..Len(signals) :
          /\ (/\ now' = now /\ live' = live /\ Len(signals') = Len(signals)
              /\ chk'[i].step \in {"nodata", "notyet"}) =>
                /\ chk'[i].ret = FALSE
                /\ signals'[i] = signals[i]
                /\ signals'[i].result = "pending"
                /\ signals'[i].profit_loss = 0
                /\ signals'[i].resolved_at = NoTime
                /\ i \in pending_recent(signals', now')
          /\ (/\ signals[i].result = "pending"
              /\ signals'[i].result \in Terminal
              /\ ~can_resolve_signal(signals[i], live, live.minute).can) =>
                /\ i \in pending_old(signals, now)
                /\ signals'[i].result = "loss"]_vars

\* A signal a check cycle examined and could not resolve.
C4_Witness ==
    \E i \in 1..Len(signals) :
        /\ chk[i].step \in {"nodata", "notyet"}
        /\ chk[i].ret = FALSE
        /\ signals[i].result = "pending"

\* C2: under fair execution of the loops launched by start_monitoring,
\* every pending signal eventually has a terminal result.
C2_EventuallyTerminal ==
    \A i \in 1..MaxSignals :
        (Len(signals) >= i /\ signals[i].result = "pending")
            ~> (Len(signals) >= i /\ signals[i].result \in Terminal)

(***************************************************************************)
(* Properties of _can_resolve_signal and _calculate_profit_loss            *)
(***************************************************************************)

\* C5: a signal is resolved only if its target is already met by the score
\* (total goals above the over line, both teams scored for btts, the
\* predicted team scored for team_to_score), or the match is finished or at
\* minute 90 or later, or the dwell time since trigger_minute has elapsed
\* (15 minutes for first_goal / next_goal, 20 for team_performance);
\* otherwise the signal stays 'pending'.
C5_ResolvableOnlyIf ==
    \A i \in 1..Len(signals) :
        LET s == signals[i]
            target_met ==
                \/ s.signal_type \in OverTypes
                      /\ total_goals(match) * 10 > target(s.signal_type)
                \/ s.signal_type = "btts"
                      /\ match.home_score > 0 /\ match.away_score > 0
                \/ s.signal_type = "team_to_score"
                      /\ IF s.team = "home" THEN match.home_score > 0
                                            ELSE match.away_score > 0
            ended == match.status \in FinishedStatus \/ match.minute >= 90
            dwelled ==
                \/ s.signal_type \in GoalTypes
                      /\ match.minute - s.trigger_minute >= 15
                \/ s.signal_type = "team_performance"
                      /\ match.minute - s.trigger_minute >= 20
        IN  /\ chk[i].step = "resolved" => target_met \/ ended \/ dwelled
            /\ chk[i].step = "notyet" => s.result = "pending"

\* A goal signal resolved on a live match exactly when its dwell elapsed.
C5_Witness ==
    \E i \in 1..Len(signals) :
        /\ chk[i].step = "resolved"
        /\ signals[i].signal_type \in GoalTypes
        /\ match.status = "live"
        /\ match.minute - signals[i].trigger_minute = 15

\* C6: every signal_type the registered strategies emit is resolved with a
\* terminal result by a check cycle that finds the match finished.
C6_RegisteredTypesResolve ==
    \A i \in 1..Len(signals) :
        (/\ signals[i].signal_type \in RegisteredTypes
         /\ chk[i].step \in {"notyet", "resolved"}
         /\ match.status \in FinishedStatus) =>
            /\ chk[i].step = "resolved"
            /\ signals[i].result \in Terminal

\* C7 as stated: the settled profit_loss is exactly (odds - 1) * stake on a
\* win, -stake on a loss, 0 on a push.
C7_ExactProfitLoss ==
    \A i \in 1..Len(signals) :
        chk[i].step = "resolved" =>
            signals[i].profit_loss =
                IF signals[i].result = "win"
                THEN (signals[i].odds - 100) * signals[i].stake
                ELSE IF signals[i].result = "loss"
                     THEN -(signals[i].stake * 100)
                     ELSE 0

\* C7: the settled profit_loss is a whole number of hundredths and lies
\* within half a hundredth of (odds - 1) * stake on a win, of -stake on a
\* loss, and is 0 on a push.
C7_RoundedProfitLoss ==
    \A i \in 1..Len(signals) :
        chk[i].step = "resolved" =>
            LET exact == IF signals[i].result = "win"
                         THEN (signals[i].odds - 100) * signals[i].stake
                         ELSE IF signals[i].result = "loss"
                              THEN -(signals[i].stake * 100)
                              ELSE 0
            IN  /\ signals[i].profit_loss % 1000 = 0
                /\ Abs(signals[i].profit_loss - exact) <= 500
                /\ signals[i].result = "push" => signals[i].profit_loss = 0

\* A settled win whose stored profit differs from the exact product.
C7_Witness ==
    \E i \in 1..Len(signals) :
        /\ chk[i].step = "resolved"
        /\ signals[i].result = "win"
        /\ signals[i].profit_loss # (signals[i].odds - 100) * signals[i].stake

(***************************************************************************)
(* Properties of the tick analyzer                                         *)
(***************************************************************************)

C9_AverageIsWindowSum ==
    \A m \in DOMAIN tick_ret :
        (tick_ret[m].step = "added" /\ Len(match_ticks[m]) >= 2) =>
            \A metric \in tracked_metrics :
                LET d == match_deltas[m][metric]
                    k == IF Len(d) < 3 THEN Len(d) ELSE 3
                    t == match_ticks[m]
                    n == Len(t)
                IN  /\ match_moving_averages[m][metric].current_average
                         = sum([j \in 1..k |-> d[Len(d) - k + j]])
                    /\ (\A j \in 1..n : ~get_metric_raises(t[j])) =>
                          match_moving_averages[m][metric].current_average
                             = get_metric_value(t[n], metric)
                                 - get_metric_value(t[n - k], metric)

\* More deltas than the window holds, and the window sum differs from the
\* sum of all deltas.
C9_Witness ==
    \E m \in DOMAIN tick_ret :
        /\ tick_ret[m].step = "added"
        /\ Len(match_deltas[m]["total_attacks"]) > 3
        /\ match_moving_averages[m]["total_attacks"].current_average
              # sum(match_deltas[m]["total_attacks"])
        /\ match_moving_averages[m]["total_attacks"].current_average # 0

(***************************************************************************)
(* Properties of the strategy evaluators                                   *)
(***************************************************************************)

\* C10: an evaluator returns a signal only if at least its minimum number
\* of conditions hold (5 of 7 for btts_yes, 6 of 7 for draw, 7 of 10 for
\* over_2_5_goals), whatever the metrics behind the additive bonuses.
C10_NoSignalBelowMinimum ==
    /\ ("btts_yes" \in DOMAIN sout /\ sout["btts_yes"].signal) =>
          Count(btts_yes_conditions(sin)) >= 5
    /\ ("draw" \in DOMAIN sout /\ sout["draw"].signal) =>
          Count(draw_conditions(sin)) >= 6
    /\ ("over_2_5_goals" \in DOMAIN sout /\ sout["over_2_5_goals"].signal) =>
          Count(over_2_5_goals_conditions(sin)) >= 7

\* btts_yes declined one condition short of its minimum although both of
\* its bonuses apply.
C10_Witness ==
    /\ "btts_yes" \in DOMAIN sout
    /\ ~sout["btts_yes"].signal
    /\ Count(btts_yes_conditions(sin)) = 4
    /\ dxg_balance_at_least(sin, 6)
    /\ Min(sin.dxg_home, sin.dxg_away) >= 120

(***************************************************************************)
(* Properties of analyze_all_strategies                                    *)
(***************************************************************************)

\* C11: an analyze_all_strategies call never raises, calls the evaluator of
\* every registered strategy whichever of them fail, and returns exactly
\* the signals of the strategies whose evaluation did not fail and whose
\* confidence passes the gate.
C11_FailuresIsolated ==
    aout # <<>> =>
        /\ ~aout.raised
        /\ aout.evaluated = Registry(ain.cls)
        /\ aout.signals =
              SelectSeq([i \in DOMAIN Registry(ain.cls) |->
                            [strategy |-> Registry(ain.cls)[i],
                             confidence |->
                                evaluator_result(ain.cls, Registry(ain.cls)[i],
                                                 ain, sin).confidence]],
                        LAMBDA r :
                            /\ evaluator_outcome(ain.cls, r.strategy, ain, sin).kind
                                   = "return"
                            /\ evaluator_result(ain.cls, r.strategy, ain, sin).signal
                            /\ r.confidence > Gate(ain.cls))

\* C12: calculate_metrics returns a metrics value for every raw snapshot
\* and history, substituting 0 (50.0 for possession) for missing fields;
\* it never fails with an error.
C12_MetricsAlwaysReturned ==
    "calculate_metrics" \in DOMAIN cout =>
        LET r == cout["calculate_metrics"]
            st == cin.current_stats
        IN  /\ ~r.raised
            /\ r.shots_home = Get(st, "shots_home", 0)
            /\ r.attacks_home = Get(st, "attacks_home", 0)
            /\ r.dangerous_home = Get(st, "dangerous_attacks_home", 0)
            /\ r.corners_home = Get(st, "corners_home", 0)
            /\ r.possession_home = Get(st, "possession_home", 50)
            /\ r.possession_away = Get(st, "possession_away", 50)

\* C13: for all non-negative counts and every minute, dxg_home and
\* dxg_away as _calculate_dxg returns them lie in [0, 3.0].
C13_DxgWithinCap ==
    "calculate_dxg" \in DOMAIN cout =>
        \A i \in 1..2 :
            /\ cout["calculate_dxg"][i] >= 0
            /\ cout["calculate_dxg"][i] <= 3000

\* C14: every signal an evaluator emits has a confidence no greater than
\* the evaluator's ceiling (0.9 for the dxG evaluator and for
\* tiredness_advantage, 0.8 for btts_yes) and no greater than 1.
C14_ConfidenceWithinCeiling ==
    \A strategy \in DOMAIN sout :
        sout[strategy].signal =>
            /\ sout[strategy].confidence <= Ceiling(strategy)
            /\ sout[strategy].confidence <= 10000

\* C15: for a snapshot at minute 22 with goal expectancy >= 2.8 and at
\* least 7 of the 10 over-2.5 conditions, analyze_all_strategies of
\* advanced_strategies.py returns an over_2_5_goals signal with confidence
\* in (0.58, 0.90].
C15_Over25Emitted ==
    (/\ aout # <<>>
     /\ ain.cls = "AdvancedFootballStrategies"
     /\ sin.minute = 22
     /\ sin.goal_expectancy >= 280
     /\ Count(over_2_5_goals_conditions(sin)) >= 7) =>
        /\ ~aout.raised
        /\ \E i \in DOMAIN aout.signals :
              /\ aout.signals[i].strategy = "over_2_5_goals"
              /\ aout.signals[i].confidence > 5800
              /\ aout.signals[i].confidence <= 9000

(***************************************************************************)
(* Properties of the optimizer                                             *)
(***************************************************************************)

\* C16: predict_signal_success for a strategy with no entry in
\* strategy_stats returns exactly the input confidence and the explanation
\* that no historical data is available.
C16_NoHistoryUnchanged ==
    (pout # <<>> /\ pout.seen = <<>>) =>
        /\ pout.result = pout.confidence * 1000
        /\ pout.explanation = "No historical data available"

\* A confidence of 0.95 at minute 10 came back unchanged for want of stats.
C16_Witness ==
    /\ pout # <<>>
    /\ pout.seen = <<>>
    /\ pout.confidence = 9500
    /\ pout.minute = 10
    /\ pout.result = 9500000

\* C17: optimize_strategy_thresholds called with fewer than min_samples
\* historical signals returns an empty threshold set and leaves
\* strategy_stats unchanged, so every predict_signal_success call returns
\* afterwards what it returned before.
C17_RefusesBelowMinSamples ==
    [][(/\ opt.pc = "signals"
        /\ opt' # opt
        /\ Len(historical_signals(Head(opt.todo), db[Head(opt.todo)]))
              < MIN_SAMPLES_FOR_LEARNING) =>
           /\ oret'.thresholds = <<>>
           /\ strategy_stats' = strategy_stats
           /\ \A i \in DOMAIN OptStrategies, confidence \in PredictConfidences,
                 minute \in PredictMinutes :
                 predict(strategy_stats', OptStrategies[i], confidence, minute)
                    = predict(strategy_stats, OptStrategies[i], confidence, minute)
      ]_vars

\* A batch of 49 resolved signals was refused while the table held an entry
\* of another strategy.
C17_Witness ==
    /\ oret # <<>>
    /\ oret.samples = 49
    /\ oret.thresholds = <<>>
    /\ strategy_stats # <<>>
    /\ oret.strategy_name \notin DOMAIN strategy_stats

\* C18: for a strategy that has stats, predict_signal_success returns the
\* raw confidence times a confidence multiplier (1.1, 0.9 or 1.0) times a
\* time multiplier (1.05, 0.95 or 1.0), clamped to [0.1, 0.95].
C18_ClampedProduct ==
    (pout # <<>> /\ pout.seen # <<>>) =>
        /\ pout.result >= 1000000
        /\ pout.result <= 9500000
        /\ \E cm \in {11, 9, 10}, tm \in {105, 95, 100} :
              pout.result = Max(1000000, Min(9500000, pout.confidence * cm * tm))

\* A confidence of 0.95 at minute 50 was held at 0.95 by the upper bound.
C18_Witness ==
    /\ pout # <<>>
    /\ pout.seen # <<>>
    /\ pout.confidence = 9500
    /\ pout.minute = 50
    /\ pout.result = 9500000

\* The entries optimize_strategy_thresholds can build for a strategy.
CompleteEntries(strategy_name) ==
    {stats_entry(historical_signals(strategy_name, stage),
                 SelectSeq(historical_signals(strategy_name, stage),
                           LAMBDA sg : sg.result = "win"),
                 SelectSeq(historical_signals(strategy_name, stage),
                           LAMBDA sg : sg.result = "loss")) : stage \in Stages}

\* C19: a predict_signal_success call that runs while optimize_strategies is
\* under way sees for its strategy no entry or a complete entry, never a
\* partially updated one, and wherever the optimization is suspended a
\* predict_signal_success call can run.
C19_NoPartialEntry ==
    /\ pout # <<>> =>
          \/ pout.seen = <<>>
          \/ pout.seen \in CompleteEntries(pout.strategy_name)
    /\ (opt # <<>> /\ opt.pc \in {"strategies", "signals", "commit"}) =>
          ENABLED predict_signal_success

\* A prediction read the old entry of a strategy while the optimization was
\* suspended fetching that strategy's grown history.
C19_Witness ==
    /\ pout # <<>>
    /\ pout.during = "signals"
    /\ pout.seen # <<>>
    /\ opt.pc = "signals"
    /\ Head(opt.todo) = pout.strategy_name
    /\ pout.seen = strategy_stats[pout.strategy_name]
    /\ pout.seen.total_signals
          < Len(historical_signals(pout.strategy_name, db[pout.strategy_name]))

(***************************************************************************)
(* Properties of the poll cycle                                            *)
(***************************************************************************)

\* C20: abandoning a poll cycle where process_match or process_signal is
\* suspended corrupts no state: when the match is processed again, its
\* signal is not suppressed by the cooldown of a signal whose processing
\* was abandoned before its record was committed.
C20_InterruptedSignalKept ==
    (plog # <<>> /\ plog.outcome = "suppressed") =>
        match_signal_timeout \notin abandoned

\* C21: a call of add_tick or clear_match_data for one match leaves the tick
\* history, the delta deques and the trend state of every other match as
\* they were, and a match's delta deques and trend state are those obtained
\* from its own tick history alone.
C21_MatchesIsolated ==
    [][LET Same(before, after, B) ==
               /\ B \in DOMAIN before <=> B \in DOMAIN after
               /\ B \in DOMAIN before /\ B \in DOMAIN after
                     => before[B] = after[B]
           Calls(log) == [B \in DOMAIN log |-> <<log[B].step, log[B].at>>]
           RECURSIVE own(_, _)
           own(ticks, n) ==
               IF n <= 1
               THEN [deltas |-> [metric \in tracked_metrics |-> <<>>],
                     mas |-> [metric \in tracked_metrics |-> NewMovingAverage]]
               ELSE LET before == own(ticks, n - 1)
                        cd == calculate_deltas(SubSeq(ticks, 1, n), before.deltas)
                    IN  [deltas |-> cd.deltas,
                         mas |-> update_moving_averages(cd.deltas, before.mas)]
       IN  /\ \A B \in LiveMatchIds :
                 Same(Calls(tick_ret), Calls(tick_ret'), B)
                     => /\ Same(match_ticks, match_ticks', B)
                        /\ Same(match_deltas, match_deltas', B)
                        /\ Same(match_moving_averages, match_moving_averages', B)
           /\ \A B \in DOMAIN match_ticks' :
                 LET mine == own(match_ticks'[B], Len(match_ticks'[B]))
                 IN  /\ match_deltas'[B] = mine.deltas
                     /\ match_moving_averages'[B] = mine.mas]_vars

\* m2 keeps a trend built from three of its ticks after m1, which held
\* ticks of its own, was cleared.
C21_Witness ==
    /\ DOMAIN match_ticks = {"m2"}
    /\ Len(match_ticks["m2"]) = 3
    /\ match_moving_averages["m2"]["total_attacks"].current_average = 2
    /\ "m1" \in DOMAIN tick_ret
    /\ tick_ret["m1"].step = "cleared"
    /\ tick_ret["m1"].at > match_ticks["m2"][3].timestamp

C23_ShiftPattern ==
    \A m \in DOMAIN tick_ret :
        (tick_ret[m].step = "shifts" /\ m \in DOMAIN match_moving_averages) =>
            (\A metric \in key_metrics :
                LET h == match_moving_averages[m][metric].deltas_history
                    Flagged(type) ==
                        \E shift \in tick_ret[m].ret :
                            shift.metric = metric /\ shift.type = type
                    Reversal(a, b, c) ==
                        a < 0 /\ b < 0 /\ c > 0 /\ 2 * c >= 3 * (-b)
                IN  (Len(h) = 3) =>
                      /\ (Flagged("momentum_gain") <=> Reversal(h[1], h[2], h[3]))
                      /\ (Flagged("momentum_loss")
                             <=> Reversal(-h[1], -h[2], -h[3])))

\* C24: check_pending_results and force_resolve_old_signals write only
\* result, profit_loss and resolved_at of a signal; its odds, stake,
\* confidence and trigger_metrics, and every other field, stay as stored.
C24_OnlyResultFieldsWritten ==
    [][\A i \in DOMAIN signals :
          /\ i \in DOMAIN signals'
          /\ \A field \in DOMAIN signals[i] \ {"result", "profit_loss", "resolved_at"} :
                signals'[i][field] = signals[i][field]]_vars

\* A signal settled as a win by check_pending_results, holding the odds,
\* stake, confidence and trigger_metrics it was created with.
C24_Witness ==
    \E i \in DOMAIN signals :
        /\ chk[i].step = "resolved"
        /\ signals[i].result = "win"
        /\ signals[i].profit_loss > 0
        /\ signals[i].resolved_at > signals[i].created_at
        /\ signals[i].odds = 135
        /\ signals[i].stake = 1350
        /\ signals[i].confidence = 850
        /\ signals[i].trigger_metrics = "minute" :> 50

\* C25: a signal is settled at most once even when a check run and a forced
\* resolution overlap: once a signal holds a resolution, no later step
\* writes its result, profit_loss or resolved_at.
C25_SettledOnce ==
    [][\A i \in DOMAIN signals :
          signals[i].resolved_at # NoTime =>
              /\ signals'[i].result = signals[i].result
              /\ signals'[i].profit_loss = signals[i].profit_loss
              /\ signals'[i].resolved_at = signals[i].resolved_at]_vars

\* C26: a match's tick history never holds more than MAX_TICKS_HISTORY ticks,
\* each delta deque never more than 2 * tick_window_size deltas, each trend's
\* deltas_history never more than tick_window_size; a trend's confidence is
\* min(stored deltas / tick_window_size, 1), lies in [0, 1], and does not
\* decrease from one step to the next while the match's buffers exist.
C26_BuffersBounded ==
    [][\A m \in DOMAIN match_ticks' :
          /\ Len(match_ticks'[m]) <= max_ticks_history
          /\ \A metric \in tracked_metrics :
                LET held == Len(match_deltas'[m][metric])
                    trend == match_moving_averages'[m][metric]
                IN  /\ held <= 2 * tick_window_size
                    /\ Len(trend.deltas_history) <= tick_window_size
                    /\ trend.confidence
                          = (Min(held, tick_window_size) * 100) \div tick_window_size
                    /\ trend.confidence \in 0..100
                    /\ m \in DOMAIN match_moving_averages =>
                          trend.confidence
                              >= match_moving_averages[m][metric].confidence]_vars

\* The tick history is full and has dropped its first tick, the delta deque
\* and the trend's window are full, the confidence is 1.
C26_Witness ==
    \E m \in DOMAIN match_ticks :
        /\ Len(match_ticks[m]) = max_ticks_history
        /\ match_ticks[m][1].timestamp > 0
        /\ Len(match_deltas[m]["total_attacks"]) = 2 * tick_window_size
        /\ Len(match_moving_averages[m]["total_attacks"].deltas_history)
              = tick_window_size
        /\ match_moving_averages[m]["total_attacks"].confidence = 100
        /\ match_moving_averages[m]["total_attacks"].current_average = 3

\* C27: a trend's current_average is the metric's value at the latest
\* accepted tick minus its value at the accepted tick tick_window_size
\* accepted ticks earlier, or at the first accepted tick while fewer exist;
\* a snapshot whose add_tick call returned False is no part of it.  (A tick
\* of the history was accepted when it is the first one, or when neither it
\* nor the tick before it makes get_metric_value raise.)
C27_AverageTelescopes ==
    \A m \in DOMAIN match_ticks :
        LET ticks == match_ticks[m]
            accepted == {i \in 1..Len(ticks) :
                            \/ i = 1
                            \/ /\ ~get_metric_raises(ticks[i])
                               /\ ~get_metric_raises(ticks[i - 1])}
            latest == CHOOSE i \in accepted : \A j \in accepted : j <= i
            base == CHOOSE i \in accepted :
                        Cardinality({j \in accepted : i < j})
                            = Min(tick_window_size, Cardinality(accepted) - 1)
        IN  (/\ ticks # <<>>
             /\ ~get_metric_raises(ticks[latest])
             /\ ~get_metric_raises(ticks[base]))
            => match_moving_averages[m]["total_attacks"].current_average
                  = get_metric_value(ticks[latest], "total_attacks")
                      - get_metric_value(ticks[base], "total_attacks")

\* C28: a call of add_tick that returns False, because the interval has not
\* elapsed or because processing the snapshot failed, leaves the match's tick
\* history, delta deques and trend state exactly as they were.
C28_RejectedTickNoTrace ==
    [][\A m \in DOMAIN tick_ret' :
          (tnow' = tnow /\ tick_ret'[m].ret = FALSE) =>
              /\ m \in DOMAIN match_ticks
              /\ match_ticks'[m] = match_ticks[m]
              /\ match_deltas'[m] = match_deltas[m]
              /\ match_moving_averages'[m] = match_moving_averages[m]]_vars

\* C29: the Signal records process_signal creates for a match, committed or
\* still in the open session, are at least 300 seconds apart: a further
\* signal for the match arriving less than 300 seconds after one that passed
\* the cooldown check creates no record, whatever its strategy.
C29_OneSignalPerWindow ==
    LET records == stored \o session
    IN  \A i, j \in DOMAIN records :
            i < j => records[j].created_at - records[i].created_at >= SignalCooldown

\* A signal of one strategy was recorded in this tick and a later signal of
\* the same tick was dropped, after an earlier signal of the match had been
\* committed 300 seconds before.
C29_Witness ==
    /\ Len(stored) = 1
    /\ Len(session) = 1
    /\ session[1].created_at = stored[1].created_at + SignalCooldown
    /\ session[1].strategy_name = "draw"
    /\ task.pc = "commit"
    /\ plog = [at |-> session[1].created_at, outcome |-> "suppressed"]

\* C30: whenever optimize_strategy_thresholds proposes a trigger-minute
\* window, its min_minute is at least 15, its max_minute at most 80, and
\* min_minute does not exceed max_minute.
C30_MinuteWindowOrdered ==
    (oret # <<>> /\ "min_minute" \in DOMAIN oret.thresholds) =>
        /\ oret.thresholds.min_minute >= 15
        /\ oret.thresholds.max_minute <= 80
        /\ oret.thresholds.min_minute <= oret.thresholds.max_minute

====
